---- MODULE Spec2Model ----
(***************************************************************************)
(* pyreposync: the mirror engine (SyncRPM and SyncDeb822 over Downloader), *)
(* the snapshot store (SyncGeneric) and the job runner (PyRepoSync /       *)
(* RepoSyncThread).                                                        *)
(*                                                                         *)
(* Spec      one RPM repository's on-disk tree under a sequence of verb    *)
(*           runs (sync, snap, snap_cleanup, snap_name, snap_unname), each *)
(*           run possibly ended by an error or stopped by the host.        *)
(* SpecSync  sync runs on an RPM or on a Debian repository.                *)
(* SpecGet   one call of Downloader.get, statement by statement.           *)
(* SpecRun   one run of the program: the queue of job sets, the workers,   *)
(*           the exit code.                                                *)
(***************************************************************************)
EXTENDS Integers, Sequences, FiniteSets, TLC

\* ------------------------------------------------------------------ bounds
MaxDate == 2
MaxRuns == 2

\* -------------------------------------------------------- program constants
Retries == 10

\* ------------------------------------------------------------- vocabulary
Pkgs == {"a", "b"}
PkgOrder == <<"a", "b">>
Names == {"prod", "test"}
Dates == 1..MaxDate
Revs == {1, 2}
Sums == Revs

\* An absent file is the empty set, a present file the singleton of its
\* content.
NoFile == {}
File(c) == {c}
Content(f) == CHOOSE c \in f : TRUE

\* What the server declares and serves.  A revision of the repository lists,
\* for each package path, the content it publishes (0: not listed).  The
\* upstream history is a chain: revision i republishes package "a" with
\* content i and keeps package "b".
Revision(i) == [p \in Pkgs |-> IF p = "a" THEN i ELSE 1]
Revisions == {Revision(i) : i \in Revs}

\* ------------------------------------------------------------- Downloader
\* hashlib's digest of a content, as a hex string of the given type.
hexdigest(hash_type, c) == <<hash_type, "hex", c>>

HashTypes == {"md5", "sha", "sha1", "sha256", "sha512"}

hasher(hash_type) ==
    CASE hash_type = "md5" -> "md5"
      [] hash_type = "sha" -> "sha1"
      [] hash_type = "sha1" -> "sha1"
      [] hash_type = "sha256" -> "sha256"
      [] hash_type = "sha512" -> "sha512"
      [] OTHER -> "None"

\* Downloader.check_hash: the exception it ends with ("none": it returns).
check_hash(destination, checksum, hash_type) ==
    IF destination = NoFile THEN "FileNotFoundError"
    ELSE IF hasher(hash_type) = "None" THEN "AttributeError"
    ELSE IF hexdigest(hasher(hash_type), Content(destination)) = checksum
         THEN "none"
         ELSE "OSRepoSyncHashError"

\* A server response: status 0 is a transport failure
\* (requests.exceptions.ConnectionError), otherwise the HTTP status and the
\* body that was streamed.
Response(status, body) == [status |-> status, body |-> body]

\* Downloader._get: one request.  tmp is the file left at the temporary
\* path, exc the exception the call ends with.
get_request(r, checksum, hash_type, not_found_ok) ==
    IF r.status = 0 THEN [tmp |-> NoFile, exc |-> "ConnectionError"]
    ELSE IF r.status = 200 THEN
        IF checksum # NoFile
        THEN [tmp |-> File(r.body),
              exc |-> check_hash(File(r.body), Content(checksum), hash_type)]
        ELSE [tmp |-> File(r.body), exc |-> "none"]
    ELSE IF not_found_ok /\ r.status = 404
         THEN [tmp |-> NoFile, exc |-> "none"]
         ELSE [tmp |-> NoFile, exc |-> "OSRepoSyncDownLoadError"]

\* What the server does during one call of get: the first `fails` requests
\* are answered by failResp, every later one by final.
Script(fails, failResp, final) ==
    [fails |-> fails, failResp |-> failResp, final |-> final]

ScriptResponse(script, n) ==
    IF n < script.fails THEN script.failResp ELSE script.final

\* The retry loop of Downloader.get from attempt number n on.
RECURSIVE get_loop(_, _, _, _, _, _, _)
get_loop(retries, n, destination, script, checksum, hash_type, not_found_ok) ==
    IF ~(retries >= 0)
    THEN [dest |-> destination, exc |-> "OSRepoSyncDownLoadError",
          attempts |-> n]
    ELSE LET a == get_request(ScriptResponse(script, n), checksum, hash_type,
                              not_found_ok)
         IN  CASE a.exc = "none" ->
                    IF a.tmp # NoFile
                    THEN [dest |-> a.tmp, exc |-> "none", attempts |-> n + 1]
                    ELSE IF not_found_ok
                         THEN [dest |-> destination, exc |-> "none",
                               attempts |-> n + 1]
                         ELSE [dest |-> destination, exc |-> "OSError",
                               attempts |-> n + 1]
               [] a.exc \in {"ConnectionError", "OSRepoSyncHashError"} ->
                    get_loop(retries - 1, n + 1, destination, script,
                             checksum, hash_type, not_found_ok)
               [] a.exc = "OSRepoSyncDownLoadError" ->
                    [dest |-> destination, exc |-> "OSRepoSyncDownLoadError",
                     attempts |-> n + 1]
               [] OTHER ->
                    [dest |-> destination, exc |-> a.exc, attempts |-> n + 1]

\* Downloader.get as one call: the file at destination afterwards, the
\* exception it ends with and the number of requests it made.
get(destination, script, checksum, hash_type, replace, not_found_ok) ==
    IF ~replace /\ destination # NoFile
    THEN [dest |-> destination, exc |-> "none", attempts |-> 0]
    ELSE get_loop(Retries, 0, destination, script, checksum, hash_type,
                  not_found_ok)


\* --------------------------------------------------------------- upstream
\* pyreposync.exceptions is not among the sources: the classes that the
\* handlers' `except OSRepoSyncException` clauses catch.
OSRepoSyncExceptions ==
    {"OSRepoSyncException", "OSRepoSyncDownLoadError", "OSRepoSyncHashError"}

UpHashType == "sha256"

MetaLocs == {"repodata/primary.xml.gz", "repodata/filelists.xml.gz"}

\* The content of the metadata file at location loc in revision r.
MetaContent(loc, r) == [loc |-> loc, rev |-> r]
Garbled == [loc |-> "garbled", rev |-> [p \in Pkgs |-> 0]]

DataEntry(loc, r) ==
    [location |-> loc, hash_type |-> UpHashType,
     hash_sum |-> hexdigest(hasher(UpHashType), MetaContent(loc, r))]

\* repomd.xml of revision r: its <data> elements in document order.
RepomdDoc(r) ==
    [ok |-> TRUE,
     data |-> <<DataEntry("repodata/primary.xml.gz", r),
                DataEntry("repodata/filelists.xml.gz", r)>>]
GarbledDoc == [ok |-> FALSE, data |-> <<>>]

\* .treeinfo as the upstream publishes it: the files of its [checksums]
\* section in document order.
TreeFiles == {"images/boot.iso"}
TreeinfoDoc ==
    [ok |-> TRUE,
     files |-> <<[file |-> "images/boot.iso", hash_algo |-> UpHashType,
                  hash_sum |-> hexdigest(hasher(UpHashType), "iso")]>>]
GarbledTreeinfo == [ok |-> FALSE, files |-> <<>>]

\* The name of the content-addressed blob of a package:
\* <location>.<hash_algo>.<hash_sum>
BlobName(location, hash_algo, hash_sum) == <<location, hash_algo, hash_sum>>
BlobNames ==
    {BlobName(p, UpHashType, hexdigest(hasher(UpHashType), s)) :
        p \in Pkgs, s \in Sums}

\* The responses a server can give to one request for a file whose published
\* content is body: a transport failure, the file, a damaged or truncated
\* body, or an error status.
Responses(body, damaged) ==
    {Response(0, damaged), Response(200, body), Response(200, damaged),
     Response(404, damaged), Response(500, damaged)}

Scripts(body, damaged) ==
    {Script(k, fr, fin) :
        k \in {0, Retries, Retries + 1},
        fr \in {Response(0, damaged), Response(200, damaged)},
        fin \in Responses(body, damaged)}

\* ------------------------------------------------------------------ state
VARIABLES
    up,         \* the revision the upstream server publishes
    upTreeinfo, \* the .treeinfo it publishes, if any
    clock,      \* UTC time in seconds, as the snapshot date it formats to
    repomd,     \* sync/<reponame>/repodata/repomd.xml
    meta,       \* sync/<reponame>/<location> of the files repomd.xml lists
    blobs,      \* sync/<reponame>/<location>.<algo>.<sum>
    treeinfo,   \* sync/<reponame>/<treeinfo>
    images,     \* sync/<reponame>/<file> of the files .treeinfo lists
    snaps,      \* snap/<reponame>/<date>/ for every date
    stray,      \* snap/<reponame>/<destination>/, where snap_treeinfo writes
    latest,     \* snap/<reponame>/latest: the date it points at, 0: absent
    named,      \* snap/<reponame>/named/<name>: the same for every name
    pc,         \* the position of the running verb, "idle": none runs
    todo,       \* the items its current loop has still to visit
    date,       \* self.date of the running job
    lastRun,    \* the verb that ran last and how it ended
    removed,    \* the entries the last snap_cleanup removed
    named_dir,  \* whether the directory snap/<reponame>/named/ exists
    runs        \* the number of sync and snap runs started so far

\* The options of the repository's job (SyncGeneric.__init__) and of the
\* command line
VARIABLES
    allow_missing_packages,  \* self._allow_missing_packages
    snapnames,               \* the values --name is given
    repo,                    \* self._repo, the value of --repo (<<>>: none)
    tags                     \* self._tags, --tags split at "," (<<>>: None)

\* The verb validate (RepoSyncThread.do_validate)
VARIABLES
    reported    \* the destinations its loop has logged an error for

\* One call of SyncDeb822.binary_files_sha256
VARIABLES
    source,     \* the lines of Packages.gz
    parsed      \* the dict it returned (as the set of its items)

\* The verb migrate (SyncRPM.migrate)
VARIABLES
    plain,      \* sync/<reponame>/<location> of the packages (the old layout)
    migrated,   \* whether sync/<reponame>/migrated is a file
    snaplist    \* the snapshots the second loop of migrate has still to visit

\* A Debian repository's sync tree (SyncDeb822)
VARIABLES
    kind,       \* the class of the repository's job: "rpm" or "deb822"
    suites,     \* the suites the loop of SyncDeb822.sync has still to visit
    release,    \* sync/<reponame>/dists/<suite>/{InRelease,Release,Release.gpg}
    index,      \* sync/<reponame>/dists/<suite>/<filename> of Release's files
    pool,       \* sync/<reponame>/<filename>.sha256.<sum>
    answer      \* the status of the last response to a request of sync_release

\* One call of Downloader.get, statement by statement
VARIABLES
    gpc,        \* the position inside get
    garg,       \* its arguments checksum, hash_type, replace, not_found_ok
    gfs,        \* whether the temporary directory is on destination's filesystem
    gbefore,    \* the file at destination when get was called
    gdest,      \* the file at destination
    gtmp,       \* the file at tmp_file
    gretries,   \* retries
    gstatus,    \* r.status_code of the last response, 0 without one
    gattempts,  \* the calls of requests.get that this call of get has made
    gstream,    \* the part of a body or of a file that is still to be written
    gexc        \* the exception get ended with

\* One run of the program (PyRepoSync.work and its RepoSyncThread workers)
VARIABLES
    config,      \* the sections "<name>:rpm" that get_sections selects
    downloaders, \* the option downloaders of [main], if it is set
    method,      \* self.method, the verb of the command line
    num_worker,  \* the number of workers work() creates
    queue,       \* the deque of job sets, one per section
    mpc,         \* the position of the main thread in work()
    wpc,         \* the position of every worker in run()
    wjobs,       \* the jobs of the popped set a worker has still to visit
    status,      \* RepoSyncThread.status of every worker
    ran,         \* the workers that called a job's verb, in order
    outcome,     \* how every job's verb ended
    joined,      \* the workers work() has joined
    return_code  \* return_code of work()

treeVars == <<upTreeinfo, treeinfo, images, stray>>
storeVars == <<up, clock, repomd, meta, blobs, snaps, latest, named, pc, todo,
               date, lastRun, removed, named_dir, runs, treeVars>>
inputVars == <<allow_missing_packages, snapnames, repo, tags>>
debVars == <<kind, suites, release, index, pool, answer>>
getVars == <<gpc, garg, gfs, gbefore, gdest, gtmp, gretries, gattempts, gstatus,
            gstream, gexc>>
runVars == <<config, downloaders, method, num_worker, queue, mpc, wpc, wjobs, status, ran, outcome,
             joined, return_code>>

\* What a verb of the RPM store leaves alone.
readVars == <<source, parsed>>
migVars == <<plain, migrated, snaplist>>
offStore == <<inputVars, debVars, getVars, runVars, reported, readVars,
        migVars>>

NoStray ==
    [dir |-> FALSE, treeinfo |-> NoFile, images |-> [f \in TreeFiles |-> NoFile]]

NoSnap ==
    [dir |-> FALSE, repomd |-> NoFile, meta |-> [l \in MetaLocs |-> NoFile],
     links |-> [p \in Pkgs |-> NoFile], timestamp |-> FALSE]

StoreInit ==
    /\ reported = {}
    /\ up = Revision(1)
    /\ clock = 1
    /\ repomd = NoFile
    /\ meta = [l \in MetaLocs |-> NoFile]
    /\ blobs = [b \in BlobNames |-> NoFile]
    /\ snaps = [d \in Dates |-> NoSnap]
    /\ latest = 0
    /\ named = [n \in Names |-> 0]
    /\ pc = "idle"
    /\ todo = <<>>
    /\ date = 0
    /\ lastRun = [verb |-> "none", result |-> "none"]
    /\ removed = {}
    /\ named_dir = FALSE
    /\ runs = 0
    /\ upTreeinfo \in {NoFile, File(TreeinfoDoc)}
    /\ treeinfo = NoFile
    /\ images = [f \in TreeFiles |-> NoFile]
    /\ stray = NoStray

\* How a call ends for its caller: "ok", "error" (an OSRepoSyncException,
\* which the worker catches) or "crash" (any other exception).
Outcome(exc) ==
    IF exc = "none" THEN "ok"
    ELSE IF exc \in OSRepoSyncExceptions THEN "error" ELSE "crash"

\* What the store remembers of a finished run: "ok" when it returned,
\* "failed" when it raised, "killed" when the host stopped it.
Returned(exc) == IF exc = "none" THEN "ok" ELSE "failed"

EndRun(verb, result) ==
    /\ pc' = "idle"
    /\ todo' = <<>>
    /\ lastRun' = [verb |-> verb, result |-> result]

\* --------------------------------------------------- RPM metadata reader
\* SyncRPM.repomd_files on the repomd.xml found at a path.
repomd_files(repomdFile) ==
    IF repomdFile = NoFile THEN [exc |-> "FileNotFoundError", items |-> <<>>]
    ELSE IF ~Content(repomdFile).ok THEN [exc |-> "ParseError", items |-> <<>>]
    ELSE [exc |-> "none", items |-> Content(repomdFile).data]

IsPrimary(entry) == entry.location = "repodata/primary.xml.gz"

\* The packages of a revision in document order, as (location, hash_algo,
\* hash_sum).
RECURSIVE PackageList(_, _)
PackageList(rev, order) ==
    IF order = <<>> THEN <<>>
    ELSE LET p == Head(order)
             rest == PackageList(rev, Tail(order))
         IN  IF rev[p] = 0 THEN rest
             ELSE <<[location |-> p, hash_algo |-> UpHashType,
                     hash_sum |-> hexdigest(hasher(UpHashType), rev[p])]>>
                  \o rest

\* SyncRPM.packages on a tree with the given repomd.xml and metadata files.
packages(repomdFile, metaFiles) ==
    LET listed == repomd_files(repomdFile)
        prim == {i \in 1..Len(listed.items) : IsPrimary(listed.items[i])}
    IN  IF listed.exc # "none" THEN [exc |-> listed.exc, items |-> <<>>]
        ELSE IF prim = {} THEN [exc |-> "OSRepoSyncException", items |-> <<>>]
        ELSE LET primary == metaFiles["repodata/primary.xml.gz"]
             IN  IF primary = NoFile
                 THEN [exc |-> "FileNotFoundError", items |-> <<>>]
                 ELSE IF Content(primary) = Garbled
                 THEN [exc |-> "ParseError", items |-> <<>>]
                 ELSE [exc |-> "none",
                       items |-> PackageList(Content(primary).rev, PkgOrder)]


\* SyncRPM.treeinfo_files on the .treeinfo found in the sync tree.
treeinfo_files(treeinfoFile) ==
    IF treeinfoFile = NoFile THEN [exc |-> "none", items |-> <<>>]
    ELSE IF ~Content(treeinfoFile).ok
    THEN [exc |-> "ParseError", items |-> <<>>]
    ELSE [exc |-> "none", items |-> Content(treeinfoFile).files]

\* The server's behaviour for .treeinfo: without a published .treeinfo it
\* never answers 200.
TreeinfoScripts ==
    IF upTreeinfo = NoFile
    THEN {sc \in Scripts(GarbledTreeinfo, GarbledTreeinfo) :
             sc.failResp.status # 200 /\ sc.final.status # 200}
    ELSE Scripts(Content(upTreeinfo), GarbledTreeinfo)

\* ------------------------------------------------------------- the verbs
\* RepoSyncThread.do_sync calls job.sync() -> SyncRPM.sync_repomd.
StartSync ==
    /\ pc = "idle"
    /\ kind = "rpm"
    /\ runs < MaxRuns
    /\ runs' = runs + 1
    /\ pc' = "sync_rmtree"
    /\ lastRun' = [verb |-> "sync", result |-> "running"]
    /\ UNCHANGED <<up, clock, repomd, meta, blobs, snaps, latest, named, todo,
                   date>>
    /\ UNCHANGED <<treeVars, removed, named_dir>>
    /\ UNCHANGED offStore

\* An rmtree of the whole of sync/<reponame>/.
sync_rmtree_all ==
    /\ pc = "sync_rmtree"
    /\ repomd' = NoFile
    /\ meta' = [l \in MetaLocs |-> NoFile]
    /\ blobs' = [b \in BlobNames |-> NoFile]
    /\ pc' = "sync_repomd"
    /\ UNCHANGED <<up, clock, snaps, latest, named, todo, date, lastRun, runs>>
    /\ UNCHANGED <<treeVars, removed, named_dir>>
    /\ UNCHANGED offStore

\* shutil.rmtree(sync/<reponame>/repodata/)
sync_rmtree ==
    /\ pc = "sync_rmtree"
    /\ repomd' = NoFile
    /\ meta' = [l \in MetaLocs |-> NoFile]
    /\ pc' = "sync_repomd"
    /\ UNCHANGED <<up, clock, blobs, snaps, latest, named, todo, date, lastRun,
                   runs>>
    /\ UNCHANGED <<treeVars, removed, named_dir>>
    /\ UNCHANGED offStore

\* self.downloader.get(url, destination, replace=True) for repomd.xml, and
\* the start of the loop over self.repomd_files()
sync_repomd ==
    /\ pc = "sync_repomd"
    /\ \E script \in Scripts(RepomdDoc(up), GarbledDoc) :
         LET res == get(repomd, script, NoFile, "None", TRUE, FALSE)
             listed == repomd_files(res.dest)
         IN  /\ repomd' = res.dest
             /\ IF res.exc # "none" THEN EndRun("sync", Returned(res.exc))
                ELSE IF listed.exc # "none"
                THEN EndRun("sync", Returned(listed.exc))
                ELSE /\ pc' = "sync_repomd_files"
                     /\ todo' = listed.items
                     /\ UNCHANGED lastRun
    /\ UNCHANGED <<up, clock, meta, blobs, snaps, latest, named, date, runs>>
    /\ UNCHANGED <<treeVars, removed, named_dir>>
    /\ UNCHANGED offStore

\* One turn of the loop over repomd_files() in sync_repomd; after the last
\* one sync_packages starts with self.packages().
sync_repomd_files ==
    /\ pc = "sync_repomd_files"
    /\ IF todo # <<>>
       THEN LET e == Head(todo) IN
            \E script \in Scripts(MetaContent(e.location, up), Garbled) :
              LET res == get(meta[e.location], script, File(e.hash_sum),
                             e.hash_type, TRUE, FALSE)
              IN  /\ meta' = [meta EXCEPT ![e.location] = res.dest]
                  /\ IF res.exc # "none"
                     THEN EndRun("sync", Returned(res.exc))
                     ELSE /\ todo' = Tail(todo)
                          /\ UNCHANGED <<pc, lastRun>>
       ELSE LET pkgs == packages(repomd, meta) IN
            /\ UNCHANGED meta
            /\ IF pkgs.exc # "none" THEN EndRun("sync", Returned(pkgs.exc))
               ELSE /\ pc' = "sync_packages"
                    /\ todo' = pkgs.items
                    /\ UNCHANGED lastRun
    /\ UNCHANGED <<up, clock, repomd, blobs, snaps, latest, named, date, runs>>
    /\ UNCHANGED <<treeVars, removed, named_dir>>
    /\ UNCHANGED offStore

\* One turn of the loop of SyncRPM.sync_packages.
sync_packages ==
    /\ pc = "sync_packages"
    /\ IF todo # <<>>
       THEN LET e == Head(todo)
                destination == BlobName(e.location, e.hash_algo, e.hash_sum)
            IN
            \E script \in Scripts(up[e.location], 0) :
              LET res == get(blobs[destination], script, File(e.hash_sum),
                             e.hash_algo, FALSE, FALSE)
              IN  /\ blobs' = [blobs EXCEPT ![destination] = res.dest]
                  /\ IF res.exc # "none"
                     THEN EndRun("sync", Returned(res.exc))
                     ELSE /\ todo' = Tail(todo)
                          /\ UNCHANGED <<pc, lastRun>>
       ELSE /\ UNCHANGED <<blobs, todo, lastRun>>
            /\ pc' = "sync_treeinfo"
    /\ UNCHANGED <<up, clock, repomd, meta, snaps, latest, named, date, runs>>
    /\ UNCHANGED <<treeVars, removed, named_dir>>
    /\ UNCHANGED offStore

\* SyncRPM.sync_treeinfo up to its loop: the fetch of .treeinfo, whose
\* OSRepoSyncException ends the sync silently.
sync_treeinfo ==
    /\ pc = "sync_treeinfo"
    /\ \E script \in TreeinfoScripts :
         LET res == get(treeinfo, script, NoFile, "None", TRUE, FALSE)
             listed == treeinfo_files(res.dest)
         IN  /\ treeinfo' = res.dest
             /\ IF res.exc \in OSRepoSyncExceptions THEN EndRun("sync", "ok")
                ELSE IF res.exc # "none"
                THEN EndRun("sync", Returned(res.exc))
                ELSE IF listed.exc # "none"
                THEN EndRun("sync", Returned(listed.exc))
                ELSE /\ pc' = "sync_treeinfo_files"
                     /\ todo' = listed.items
                     /\ UNCHANGED lastRun
    /\ UNCHANGED <<up, clock, repomd, meta, blobs, snaps, latest, named, date,
                   runs, upTreeinfo, images, stray, removed,
                   named_dir>>
    /\ UNCHANGED offStore

\* One turn of the loop of sync_treeinfo.
sync_treeinfo_files ==
    /\ pc = "sync_treeinfo_files"
    /\ IF todo # <<>>
       THEN LET e == Head(todo) IN
            \E script \in Scripts("iso", "damaged") :
              LET res == get(images[e.file], script, File(e.hash_sum),
                             e.hash_algo, TRUE, FALSE)
              IN  /\ images' = [images EXCEPT ![e.file] = res.dest]
                  /\ IF res.exc # "none"
                     THEN EndRun("sync", Returned(res.exc))
                     ELSE /\ todo' = Tail(todo)
                          /\ UNCHANGED <<pc, lastRun>>
       ELSE /\ UNCHANGED images
            /\ EndRun("sync", "ok")
    /\ UNCHANGED <<up, clock, repomd, meta, blobs, snaps, latest, named, date,
                   runs, upTreeinfo, treeinfo, stray, removed,
                   named_dir>>
    /\ UNCHANGED offStore

\* RepoSyncThread.do_snap calls job.snap() -> SyncGeneric.snap, which starts
\* with SyncRPM._snap.
\* A snap that removes the latest symlink before it copies anything.
StartSnap_unlink ==
    /\ pc = "idle"
    /\ runs < MaxRuns
    /\ runs' = runs + 1
    /\ pc' = "snap_repodata"
    /\ date' = clock
    /\ lastRun' = [verb |-> "snap", result |-> "running"]
    /\ latest' = 0
    /\ UNCHANGED <<up, clock, repomd, meta, blobs, snaps, named, todo>>
    /\ UNCHANGED <<treeVars, removed, named_dir>>
    /\ UNCHANGED offStore

StartSnap ==
    /\ pc = "idle"
    /\ runs < MaxRuns
    /\ runs' = runs + 1
    /\ pc' = "snap_repodata"
    /\ date' = clock
    /\ lastRun' = [verb |-> "snap", result |-> "running"]
    /\ UNCHANGED <<up, clock, repomd, meta, blobs, snaps, latest, named, todo>>
    /\ UNCHANGED <<treeVars, removed, named_dir>>
    /\ UNCHANGED offStore

\* SyncRPM.snap_repodata up to its loop: os.makedirs of the snapshot's
\* repodata directory and copyfile of repomd.xml.
snap_repodata ==
    /\ pc = "snap_repodata"
    /\ LET listed == repomd_files(repomd) IN
       IF repomd = NoFile
       THEN /\ snaps' = [snaps EXCEPT ![date].dir = TRUE]
            /\ EndRun("snap", Returned("FileNotFoundError"))
       ELSE /\ snaps' = [snaps EXCEPT ![date].dir = TRUE,
                                      ![date].repomd = repomd]
            /\ IF listed.exc # "none"
               THEN EndRun("snap", Returned(listed.exc))
               ELSE /\ pc' = "snap_repodata_files"
                    /\ todo' = listed.items
                    /\ UNCHANGED lastRun
    /\ UNCHANGED <<up, clock, repomd, meta, blobs, latest, named, date, runs>>
    /\ UNCHANGED <<treeVars, removed, named_dir>>
    /\ UNCHANGED offStore

\* One turn of the loop of snap_repodata; after the last one snap_packages
\* starts with self.packages().
snap_repodata_files ==
    /\ pc = "snap_repodata_files"
    /\ IF todo # <<>>
       THEN LET e == Head(todo) IN
            IF meta[e.location] = NoFile
            THEN /\ EndRun("snap", Returned("FileNotFoundError"))
                 /\ UNCHANGED snaps
            ELSE /\ snaps' = [snaps EXCEPT
                                ![date].meta[e.location] = meta[e.location]]
                 /\ todo' = Tail(todo)
                 /\ UNCHANGED <<pc, lastRun>>
       ELSE /\ pc' = "snap_treeinfo"
            /\ UNCHANGED <<snaps, todo, lastRun>>
    /\ UNCHANGED <<up, clock, repomd, meta, blobs, latest, named, date, runs>>
    /\ UNCHANGED <<treeVars, removed, named_dir>>
    /\ UNCHANGED offStore

\* SyncRPM.snap_treeinfo up to its loop: copyfile of .treeinfo to
\* snap/<reponame>/<destination>/<treeinfo>, which fails (and is logged) when
\* the source or the directory of the target is missing.
snap_treeinfo ==
    /\ pc = "snap_treeinfo"
    /\ LET listed == treeinfo_files(treeinfo) IN
       /\ stray' = IF treeinfo # NoFile /\ stray.dir
                   THEN [stray EXCEPT !.treeinfo = treeinfo]
                   ELSE stray
       /\ IF listed.exc # "none" THEN EndRun("snap", Returned(listed.exc))
          ELSE /\ pc' = "snap_treeinfo_files"
               /\ todo' = listed.items
               /\ UNCHANGED lastRun
    /\ UNCHANGED <<up, clock, repomd, meta, blobs, snaps, latest, named, date,
                   runs, upTreeinfo, treeinfo, images, removed,
                   named_dir>>
    /\ UNCHANGED offStore

\* One turn of the loop of snap_treeinfo: os.makedirs of the directory of
\* snap/<reponame>/<destination>/<location> and copyfile; after the last one
\* snap_packages starts with self.packages().
snap_treeinfo_files ==
    /\ pc = "snap_treeinfo_files"
    /\ IF todo # <<>>
       THEN LET e == Head(todo) IN
            IF images[e.file] = NoFile
            THEN /\ stray' = [stray EXCEPT !.dir = TRUE]
                 /\ EndRun("snap", Returned("FileNotFoundError"))
            ELSE /\ stray' = [stray EXCEPT !.dir = TRUE,
                                           !.images[e.file] = images[e.file]]
                 /\ todo' = Tail(todo)
                 /\ UNCHANGED <<pc, lastRun>>
       ELSE LET pkgs == packages(repomd, meta) IN
            /\ UNCHANGED stray
            /\ IF pkgs.exc # "none" THEN EndRun("snap", Returned(pkgs.exc))
               ELSE /\ pc' = "snap_packages"
                    /\ todo' = pkgs.items
                    /\ UNCHANGED lastRun
    /\ UNCHANGED <<up, clock, repomd, meta, blobs, snaps, latest, named, date,
                   runs, upTreeinfo, treeinfo, images, removed,
                   named_dir>>
    /\ UNCHANGED offStore

\* os.symlink(src, dst), which raises FileExistsError when dst exists.
symlink(src, dst) == IF dst = NoFile THEN File(src) ELSE dst

\* One turn of the loop of SyncRPM.snap_packages.
snap_packages ==
    /\ pc = "snap_packages"
    /\ IF todo # <<>>
       THEN LET e == Head(todo)
                src == BlobName(e.location, e.hash_algo, e.hash_sum)
            IN  /\ snaps' = [snaps EXCEPT ![date].links[e.location] =
                                              symlink(src, @)]
                /\ todo' = Tail(todo)
                /\ UNCHANGED pc
       ELSE /\ pc' = "snap_unlink"
            /\ UNCHANGED <<snaps, todo>>
    /\ UNCHANGED <<up, clock, repomd, meta, blobs, latest, named, date,
                   lastRun, runs>>
    /\ UNCHANGED <<treeVars, removed, named_dir>>
    /\ UNCHANGED offStore

\* SyncGeneric.snap after self._snap(): os.unlink(latest)
snap_unlink ==
    /\ pc = "snap_unlink"
    /\ latest' = 0
    /\ pc' = "snap_symlink"
    /\ UNCHANGED <<up, clock, repomd, meta, blobs, snaps, named, todo, date,
                   lastRun, runs>>
    /\ UNCHANGED <<treeVars, removed, named_dir>>
    /\ UNCHANGED offStore

\* A symlink step that links latest to the oldest snapshot directory.
snap_symlink_oldest ==
    /\ pc = "snap_symlink"
    /\ latest' = CHOOSE d \in Dates :
                    snaps[d].dir /\ \A e \in Dates : snaps[e].dir => d <= e
    /\ pc' = "snap_timestamp"
    /\ UNCHANGED <<up, clock, repomd, meta, blobs, snaps, named, todo, date,
                   lastRun, runs>>
    /\ UNCHANGED <<treeVars, removed, named_dir>>
    /\ UNCHANGED offStore

\* os.symlink(current, latest)
snap_symlink ==
    /\ pc = "snap_symlink"
    /\ latest' = date
    /\ pc' = "snap_timestamp"
    /\ UNCHANGED <<up, clock, repomd, meta, blobs, snaps, named, todo, date,
                   lastRun, runs>>
    /\ UNCHANGED <<treeVars, removed, named_dir>>
    /\ UNCHANGED offStore

\* open(timestamp, "w") and the write of the date
snap_timestamp ==
    /\ pc = "snap_timestamp"
    /\ snaps' = [snaps EXCEPT ![date].timestamp = TRUE]
    /\ EndRun("snap", "ok")
    /\ UNCHANGED <<up, clock, repomd, meta, blobs, latest, named, date, runs>>
    /\ UNCHANGED <<treeVars, removed, named_dir>>
    /\ UNCHANGED offStore

\* ------------------------------------------------------- the alias verbs
\* os.readlink(path).split("/")[-1] of an alias: the date it points at.
snap_list_named_snapshot_target(alias) == alias

\* SyncGeneric.snap_list_named_snapshots: os.listdir of named/
snap_list_named_snapshots == {n \in Names : named[n] # 0}

\* The entry of snap/<reponame>/ that snap_treeinfo creates: the first
\* component of <destination>.
DestinationEntry == -1

\* SyncGeneric.snap_list_timestamp_snapshots: os.listdir of
\* snap/<reponame>/ without "latest" and "named"
snap_list_timestamp_snapshots ==
    {d \in Dates : snaps[d].dir}
    \cup (IF stray.dir THEN {DestinationEntry} ELSE {})

\* A list of the referenced timestamps that leaves out the target of latest.
snap_list_named_only ==
    {snap_list_named_snapshot_target(named[n]) :
        n \in snap_list_named_snapshots}

\* SyncGeneric.snap_list_get_referenced_timestamps: the keys of its result
\* (0 stands for None, the target of an absent latest)
snap_list_get_referenced_timestamps ==
    {snap_list_named_snapshot_target(named[n]) :
        n \in snap_list_named_snapshots}
    \cup {snap_list_named_snapshot_target(latest)}

\* shutil.rmtree of the entries the loop of snap_cleanup selects
rmtree(entries) == [d \in Dates |-> IF d \in entries THEN NoSnap ELSE snaps[d]]

\* SyncGeneric.snap_cleanup
snap_cleanup ==
    /\ pc = "idle"
    /\ LET referenced_timestamps == snap_list_get_referenced_timestamps
           unreferenced == {snap \in snap_list_timestamp_snapshots :
                               snap \notin referenced_timestamps}
       IN  /\ snaps' = rmtree(unreferenced)
           /\ stray' = IF DestinationEntry \in unreferenced THEN NoStray
                       ELSE stray
           /\ removed' = unreferenced
    /\ lastRun' = [verb |-> "snap_cleanup", result |-> "ok"]
    /\ UNCHANGED <<up, clock, repomd, meta, blobs, latest, named, pc, todo,
                   date, runs, upTreeinfo, treeinfo, images, named_dir>>
    /\ UNCHANGED offStore

\* The values of --timestamp: a 14-digit date, or another string, which is
\* read as a path below snap/<reponame>/.
TimestampArgs ==
    {[digits |-> TRUE, date |-> d, path |-> "none"] : d \in Dates}
    \cup {[digits |-> FALSE, date |-> 0, path |-> p] :
             p \in {"latest", "prod", "named", "named/prod", "named/test"}}

\* os.readlink of snap/<reponame>/<path>: the target of the link there,
\* FileNotFoundError when nothing is there, OSError (EINVAL) when the entry
\* is a directory.
readlink(path) ==
    LET link == CASE path = "latest" -> latest
                  [] path = "named/prod" -> named["prod"]
                  [] path = "named/test" -> named["test"]
                  [] OTHER -> 0
    IN  IF path = "named" /\ named_dir
        THEN [exc |-> "OSError", target |-> 0]
        ELSE IF link = 0
        THEN [exc |-> "FileNotFoundError", target |-> 0]
        ELSE [exc |-> "none", target |-> link]

\* A snap_name whose new alias is the only one left in named/.
snap_name_call_only(timestamp, snapname) ==
    LET link == readlink(timestamp.path) IN
    IF ~timestamp.digits /\ link.exc = "OSError"
    THEN [exc |-> "OSError", named |-> named, named_dir |-> named_dir]
    ELSE LET resolved == IF timestamp.digits THEN timestamp.date
                         ELSE snap_list_named_snapshot_target(link.target)
         IN  IF resolved = 0 \/ ~snaps[resolved].dir
             THEN [exc |-> "OSRepoSyncException", named |-> named,
                   named_dir |-> named_dir]
             ELSE [exc |-> "none",
                   named |-> [n \in Names |->
                                 IF n = snapname THEN resolved ELSE 0],
                   named_dir |-> TRUE]

\* SyncGeneric.snap_name(timestamp, snapname): the exception it ends with,
\* and the aliases and the directory named/ afterwards.
snap_name_call(timestamp, snapname) ==
    LET link == readlink(timestamp.path) IN
    IF ~timestamp.digits /\ link.exc = "OSError"
    THEN [exc |-> "OSError", named |-> named, named_dir |-> named_dir]
    ELSE LET resolved == IF timestamp.digits THEN timestamp.date
                         ELSE snap_list_named_snapshot_target(link.target)
         IN  IF resolved = 0 \/ ~snaps[resolved].dir
             THEN [exc |-> "OSRepoSyncException", named |-> named,
                   named_dir |-> named_dir]
             ELSE [exc |-> "none",
                   named |-> [named EXCEPT ![snapname] = resolved],
                   named_dir |-> TRUE]

\* The verb snap_name
snap_name ==
    /\ pc = "idle"
    /\ \E timestamp \in TimestampArgs, snapname \in snapnames :
         LET call == snap_name_call(timestamp, snapname) IN
         /\ named' = call.named
         /\ named_dir' = call.named_dir
         /\ lastRun' = [verb |-> "snap_name", result |-> Returned(call.exc)]
    /\ UNCHANGED <<up, clock, repomd, meta, blobs, snaps, latest, pc, todo,
                   date, runs>>
    /\ UNCHANGED <<treeVars, removed>>
    /\ UNCHANGED offStore

\* An unlink that takes every alias with it.
unlink_all(aliases, snapname) == [n \in Names |-> 0]

\* os.unlink(named/<snapname>), FileNotFoundError passed over
unlink(aliases, snapname) == [aliases EXCEPT ![snapname] = 0]

\* SyncGeneric.snap_unname
snap_unname ==
    /\ pc = "idle"
    /\ \E snapname \in snapnames : named' = unlink(named, snapname)
    /\ lastRun' = [verb |-> "snap_unname", result |-> "ok"]
    /\ UNCHANGED <<up, clock, repomd, meta, blobs, snaps, latest, pc, todo,
                   date, runs>>
    /\ UNCHANGED <<treeVars, removed, named_dir>>
    /\ UNCHANGED offStore

\* ------------------------------------------------------------ migrate
\* The name a package had in the sync tree of the old layout: <location>.
PlainName(location) == <<location>>

\* The orders in which os.listdir can return a set of entries.
Orders(S) ==
    {o \in [1..Cardinality(S) -> S] :
        \A m, n \in 1..Cardinality(S) : o[m] = o[n] => m = n}

\* SyncRPM.packages(base_path) on the directory of a snapshot entry.
snap_packages_of(snap) ==
    IF snap \in Dates THEN packages(snaps[snap].repomd, snaps[snap].meta)
    ELSE packages(NoFile, [l \in MetaLocs |-> NoFile])

\* RepoSyncThread.do_migrate calls job.migrate(): the test of the sentinel
\* file and the call of self.packages() of the first loop.
StartMigrate ==
    /\ pc = "idle"
    /\ kind = "rpm"
    /\ runs < MaxRuns
    /\ runs' = runs + 1
    /\ LET listed == packages(repomd, meta) IN
       IF migrated THEN EndRun("migrate", Returned("none"))
       ELSE IF listed.exc # "none"
       THEN EndRun("migrate", Returned(listed.exc))
       ELSE /\ pc' = "migrate_rename"
            /\ todo' = listed.items
            /\ lastRun' = [verb |-> "migrate", result |-> "running"]
    /\ UNCHANGED <<up, clock, repomd, meta, blobs, snaps, latest, named, date>>
    /\ UNCHANGED <<treeVars, removed, named_dir, migVars>>
    /\ UNCHANGED <<inputVars, debVars, getVars, runVars, reported, readVars>>

\* The first loop of migrate with no except clause around os.rename.
migrate_rename_raise ==
    /\ pc = "migrate_rename"
    /\ IF todo # <<>>
       THEN LET e == Head(todo) IN
            \E fails \in BOOLEAN :
               IF plain[e.location] = NoFile \/ fails
               THEN /\ EndRun("migrate", Returned("OSError"))
                    /\ UNCHANGED <<blobs, plain, snaplist>>
               ELSE /\ blobs' = [blobs EXCEPT
                                    ![BlobName(e.location, e.hash_algo,
                                               e.hash_sum)] = plain[e.location]]
                    /\ plain' = [plain EXCEPT ![e.location] = NoFile]
                    /\ todo' = Tail(todo)
                    /\ UNCHANGED <<pc, lastRun, snaplist>>
       ELSE /\ snaplist' \in Orders(snap_list_timestamp_snapshots)
            /\ pc' = "migrate_snap"
            /\ UNCHANGED <<blobs, plain, todo, lastRun>>
    /\ UNCHANGED <<up, clock, repomd, meta, snaps, latest, named, date, runs>>
    /\ UNCHANGED <<treeVars, removed, named_dir, migrated>>
    /\ UNCHANGED <<inputVars, debVars, getVars, runVars, reported, readVars>>

\* One turn of the first loop of migrate: os.rename of a package to
\* <location>.<hash_algo>.<hash_sum>, which can fail; after the last turn,
\* snap_list_timestamp_snapshots.
migrate_rename ==
    /\ pc = "migrate_rename"
    /\ IF todo # <<>>
       THEN LET e == Head(todo) IN
            \E fails \in BOOLEAN :
               /\ IF plain[e.location] = NoFile \/ fails
                  THEN UNCHANGED <<blobs, plain>>
                  ELSE /\ blobs' = [blobs EXCEPT
                                       ![BlobName(e.location, e.hash_algo,
                                                  e.hash_sum)] =
                                           plain[e.location]]
                       /\ plain' = [plain EXCEPT ![e.location] = NoFile]
               /\ todo' = Tail(todo)
               /\ UNCHANGED <<pc, snaplist>>
       ELSE /\ snaplist' \in Orders(snap_list_timestamp_snapshots)
            /\ pc' = "migrate_snap"
            /\ UNCHANGED <<blobs, plain, todo>>
    /\ UNCHANGED <<up, clock, repomd, meta, snaps, latest, named, date,
                   lastRun, runs>>
    /\ UNCHANGED <<treeVars, removed, named_dir, migrated>>
    /\ UNCHANGED <<inputVars, debVars, getVars, runVars, reported, readVars>>

\* One turn of the second loop of migrate up to its inner loop: the call of
\* self.packages(base_path); after the last turn, the sentinel is written.
migrate_snap ==
    /\ pc = "migrate_snap"
    /\ IF snaplist # <<>>
       THEN LET listed == snap_packages_of(Head(snaplist)) IN
            IF listed.exc # "none"
            THEN /\ EndRun("migrate", Returned(listed.exc))
                 /\ snaplist' = <<>>
                 /\ UNCHANGED migrated
            ELSE /\ pc' = "migrate_relink"
                 /\ todo' = listed.items
                 /\ UNCHANGED <<lastRun, snaplist, migrated>>
       ELSE /\ migrated' = TRUE
            /\ EndRun("migrate", Returned("none"))
            /\ UNCHANGED snaplist
    /\ UNCHANGED <<up, clock, repomd, meta, blobs, snaps, latest, named, date,
                   runs>>
    /\ UNCHANGED <<treeVars, removed, named_dir, plain>>
    /\ UNCHANGED <<inputVars, debVars, getVars, runVars, reported, readVars>>

\* The two try blocks of the inner loop on one link: os.unlink and
\* os.symlink, then os.symlink again, every call able to fail.
relink(src, dst, unlinkFails, firstFails, secondFails) ==
    LET first == IF dst = NoFile \/ unlinkFails THEN dst
                 ELSE IF firstFails THEN NoFile ELSE File(src)
    IN  IF first # NoFile \/ secondFails THEN first ELSE File(src)

\* One turn of the inner loop of migrate.
migrate_relink ==
    /\ pc = "migrate_relink"
    /\ IF todo # <<>>
       THEN LET e == Head(todo)
                src == BlobName(e.location, e.hash_algo, e.hash_sum)
            IN  \E unlinkFails, firstFails, secondFails \in BOOLEAN :
                   /\ snaps' = [snaps EXCEPT
                                   ![Head(snaplist)].links[e.location] =
                                       relink(src, @, unlinkFails, firstFails,
                                              secondFails)]
                   /\ todo' = Tail(todo)
                   /\ UNCHANGED <<pc, snaplist>>
       ELSE /\ snaplist' = Tail(snaplist)
            /\ pc' = "migrate_snap"
            /\ UNCHANGED <<snaps, todo>>
    /\ UNCHANGED <<up, clock, repomd, meta, blobs, latest, named, date,
                   lastRun, runs>>
    /\ UNCHANGED <<treeVars, removed, named_dir, plain, migrated>>
    /\ UNCHANGED <<inputVars, debVars, getVars, runVars, reported, readVars>>

\* The host stops the running verb between two of its steps.
Kill ==
    /\ pc # "idle"
    /\ EndRun(lastRun.verb, "killed")
    /\ UNCHANGED <<up, clock, repomd, meta, blobs, snaps, latest, named, date,
                   runs>>
    /\ UNCHANGED <<treeVars, removed, named_dir>>
    /\ UNCHANGED offStore

\* The upstream publishes another revision.
Publish ==
    /\ pc = "idle"
    /\ \E r \in Revisions : r # up /\ r["a"] > up["a"] /\ up' = r
    /\ UNCHANGED <<clock, repomd, meta, blobs, snaps, latest, named, pc, todo,
                   date, lastRun, runs>>
    /\ UNCHANGED <<treeVars, removed, named_dir>>
    /\ UNCHANGED offStore

\* A second passes.
Tick ==
    /\ pc = "idle"
    /\ clock < MaxDate
    /\ clock' = clock + 1
    /\ UNCHANGED <<up, repomd, meta, blobs, snaps, latest, named, pc, todo,
                   date, lastRun, runs>>
    /\ UNCHANGED <<treeVars, removed, named_dir>>
    /\ UNCHANGED offStore

StoreNext ==
    \/ StartSync \/ sync_rmtree \/ sync_repomd \/ sync_repomd_files
    \/ sync_packages \/ sync_treeinfo \/ sync_treeinfo_files
    \/ StartSnap \/ snap_repodata \/ snap_repodata_files \/ snap_treeinfo
    \/ snap_treeinfo_files \/ snap_packages
    \/ snap_unlink \/ snap_symlink \/ snap_timestamp
    \/ snap_cleanup \/ snap_name \/ snap_unname
    \/ Kill \/ Publish \/ Tick

\* ------------------------------------------------------- the verb validate
\* The frame of its steps: they read the sync tree and write the log.
validateFrame ==
    <<up, clock, repomd, meta, blobs, snaps, latest, named, date, runs,
      treeVars, removed, named_dir, inputVars, debVars, getVars, runVars,
      readVars,
      migVars>>

\* RepoSyncThread.do_validate up to its second loop: job.revalidate(), which
\* passes over FileNotFoundError and whose OSRepoSyncException sets the
\* worker's status to 1; the result "failed" stands for that status and for
\* any other exception, which ends the worker.
StartValidate ==
    /\ pc = "idle"
    /\ kind = "rpm"
    /\ LET listed == packages(repomd, meta) IN
       /\ reported' = {}
       /\ IF listed.exc = "none"
          THEN /\ pc' = "validate"
               /\ todo' = listed.items
               /\ lastRun' = [verb |-> "validate", result |-> "running"]
          ELSE IF listed.exc = "FileNotFoundError"
          THEN EndRun("validate", "ok")
          ELSE EndRun("validate", "failed")
    /\ UNCHANGED validateFrame

\* One turn of the second loop of do_validate: check_hash of a blob, with
\* OSRepoSyncHashError and FileNotFoundError logged and passed over; after
\* the last turn the handler returns with the status it had.
do_validate ==
    /\ pc = "validate"
    /\ IF todo # <<>>
       THEN LET e == Head(todo)
                destination == BlobName(e.location, e.hash_algo, e.hash_sum)
                exc == check_hash(blobs[destination], e.hash_sum, e.hash_algo)
            IN  IF exc = "none"
                THEN /\ todo' = Tail(todo)
                     /\ UNCHANGED <<pc, lastRun, reported>>
                ELSE IF exc \in {"OSRepoSyncHashError", "FileNotFoundError"}
                THEN /\ reported' = reported \cup
                          {[destination |-> destination, error |-> exc]}
                     /\ todo' = Tail(todo)
                     /\ UNCHANGED <<pc, lastRun>>
                ELSE /\ EndRun("validate", "failed")
                     /\ UNCHANGED reported
       ELSE /\ EndRun("validate", "ok")
            /\ UNCHANGED reported
    /\ UNCHANGED validateFrame

\* The operator's disk damages a package blob: its content becomes 0, the
\* content no revision publishes.
Truncate ==
    /\ pc = "idle"
    /\ \E b \in BlobNames :
         /\ blobs[b] # NoFile
         /\ blobs[b] # File(0)
         /\ blobs' = [blobs EXCEPT ![b] = File(0)]
    /\ UNCHANGED <<up, clock, repomd, meta, snaps, latest, named, pc, todo,
                   date, lastRun, runs>>
    /\ UNCHANGED <<treeVars, removed, named_dir>>
    /\ UNCHANGED offStore

\* ------------------------------------------------------ Debian repositories
\* self.suites, and the components the upstream publishes.  sync and snap
\* read component "main" only; one architecture is configured.
Suites == <<"s1", "s2">>
SuiteSet == {"s1", "s2"}
Components == {"main", "contrib"}
ReleaseNames == <<"InRelease", "Release", "Release.gpg">>

\* <component>/binary-<arch>/Packages.gz, the name Release lists it under
PackagesGz(component) == <<component, "binary-amd64", "Packages.gz">>
IndexNames == {PackagesGz(c) : c \in Components}

\* The package that component c of suite s publishes, and its content in
\* upstream revision r.
DebPackage(s, c) == <<"pool", c, s>>
DebContent(r) == r["a"]

\* The upstream's files of suite s in revision r; ok: the file parses.
ReleaseBody(name, s, r) == [name |-> name, suite |-> s, rev |-> r, ok |-> TRUE]
\* (sync and snap read Release only: a damaged InRelease or Release.gpg is
\* to them like an intact one)
ReleaseDamaged(name, s, r) ==
    IF name = "Release"
    THEN [name |-> name, suite |-> s, rev |-> Revision(1), ok |-> FALSE]
    ELSE ReleaseBody(name, s, r)
PackagesBody(s, c, r) == [suite |-> s, component |-> c, rev |-> r, ok |-> TRUE]
PackagesDamaged(s, c) ==
    [suite |-> s, component |-> c, rev |-> Revision(1), ok |-> FALSE]

PoolNames ==
    {BlobName(DebPackage(s, c), "sha256", hexdigest("sha256", r)) :
        s \in SuiteSet, c \in Components, r \in Revs}

ReadIdle == source = <<>> /\ parsed = {}

DebIdle ==
    /\ answer = 0
    /\ suites = <<>>
    /\ release = [s \in SuiteSet |->
                     [n \in {"InRelease", "Release", "Release.gpg"} |-> NoFile]]
    /\ index = [s \in SuiteSet |-> [f \in IndexNames |-> NoFile]]
    /\ pool = [b \in PoolNames |-> NoFile]

MigrateIdle ==
    plain = [p \in Pkgs |-> NoFile] /\ migrated = FALSE /\ snaplist = <<>>

DebInit == ReadIdle /\ MigrateIdle /\ DebIdle

\* SyncDeb822.release_files_sha256: the lines of the SHA256: section of the
\* Release file on disk, as (filename, sha256).
release_files_sha256(releaseFile) ==
    IF releaseFile = NoFile THEN [exc |-> "FileNotFoundError", items |-> <<>>]
    ELSE LET c == Content(releaseFile) IN
         IF ~c.ok THEN [exc |-> "none", items |-> <<>>]
         ELSE [exc |-> "none",
               items |->
                 <<[filename |-> PackagesGz("main"),
                    sha256 |-> hexdigest("sha256",
                                         PackagesBody(c.suite, "main", c.rev))],
                   [filename |-> PackagesGz("contrib"),
                    sha256 |-> hexdigest("sha256",
                                         PackagesBody(c.suite, "contrib",
                                                      c.rev))]>>]

\* SyncDeb822.binary_files_sha256 on the Packages.gz found at a path.
binary_files_sha256(packagesGz) ==
    IF packagesGz = NoFile THEN [exc |-> "FileNotFoundError", items |-> <<>>]
    ELSE LET c == Content(packagesGz) IN
         IF ~c.ok THEN [exc |-> "BadGzipFile", items |-> <<>>]
         ELSE [exc |-> "none",
               items |->
                 <<[filename |-> DebPackage(c.suite, c.component),
                    sha256 |-> hexdigest("sha256", DebContent(c.rev))]>>]

\* ------------------------------------------- the lines of a Packages.gz
MaxRecords == 2
MaxSize == 1

\* A line of the file is its key, the number of the record (the paragraph
\* between two blank lines) it stands in, and its value: the number after
\* "Size: ", or the number naming the non-empty string after "Filename: "
\* or "SHA256: ". A local of the reader holds None or the last such line's
\* record and value.
None == [rec |-> 0, val |-> 0]
Truthy(x) == x # None /\ x.val # 0

Blank(i) == [key |-> "other", rec |-> i, val |-> 0]

\* The paragraph of record i: Filename, Size and SHA256 in the order of a
\* Debian index, each present or not, closed by a blank line.
Paragraph(i, hasFilename, size, hasSha256) ==
    (IF hasFilename THEN <<[key |-> "Filename", rec |-> i, val |-> i]>>
     ELSE <<>>)
    \o (IF size # NoFile
        THEN <<[key |-> "Size", rec |-> i, val |-> Content(size)]>>
        ELSE <<>>)
    \o (IF hasSha256 THEN <<[key |-> "SHA256", rec |-> i, val |-> i]>>
        ELSE <<>>)
    \o <<Blank(i)>>

Paragraphs(i) ==
    {Paragraph(i, f, z, h) :
        f \in BOOLEAN, z \in {NoFile} \cup {File(n) : n \in 0..MaxSize},
        h \in BOOLEAN}

RECURSIVE PackagesFiles(_)
PackagesFiles(n) ==
    IF n = 0 THEN {<<>>}
    ELSE PackagesFiles(n - 1)
         \cup {head \o para : head \in {f \in PackagesFiles(n - 1) :
                                           f = <<>> \/ f[Len(f)].rec = n - 1},
                               para \in Paragraphs(n)}

\* The for loop of SyncDeb822.binary_files_sha256 over the remaining lines,
\* entries being the items of the dict packages.
RECURSIVE binary_files_sha256_loop(_, _, _, _, _)
binary_files_sha256_loop(lines, sha256, filename, size, entries) ==
    IF lines = <<>> THEN entries
    ELSE LET line == Head(lines)
             here == [rec |-> line.rec, val |-> line.val]
             sha == IF line.key = "SHA256" THEN here ELSE sha256
             fil == IF line.key = "Filename" THEN here ELSE filename
             siz == IF line.key = "Size" THEN here ELSE size
         IN  IF Truthy(fil) /\ Truthy(sha) /\ Truthy(siz)
             THEN binary_files_sha256_loop(
                      Tail(lines), None, None, None,
                      {e \in entries : e.filename.val # fil.val}
                      \cup {[filename |-> fil, sha256 |-> sha, size |-> siz]})
             ELSE binary_files_sha256_loop(Tail(lines), sha, fil, siz,
                                           entries)

binary_files_sha256_lines(lines) ==
    binary_files_sha256_loop(lines, None, None, None, {})

\* One call of binary_files_sha256 on the file.
read_packages ==
    /\ parsed = NoFile
    /\ parsed' = File(binary_files_sha256_lines(source))
    /\ UNCHANGED <<storeVars, inputVars, debVars, getVars, runVars, reported,
                   source, migVars>>

debFrame == <<up, clock, repomd, meta, blobs, snaps, latest, named, date,
              removed, named_dir, treeVars, inputVars, getVars, runVars,
              reported, readVars,
              migVars>>

\* RepoSyncThread.do_sync calls job.sync() -> SyncDeb822.sync, whose loop
\* starts with the first suite.
StartSyncDeb822 ==
    /\ pc = "idle"
    /\ kind = "deb822"
    /\ runs < MaxRuns
    /\ runs' = runs + 1
    /\ suites' = Suites
    /\ pc' = "sync_release"
    /\ todo' = ReleaseNames
    /\ lastRun' = [verb |-> "sync_deb822", result |-> "running"]
    /\ UNCHANGED <<kind, release, index, pool, answer>>
    /\ UNCHANGED debFrame

\* One turn of the loop of SyncDeb822.sync_release; after the last one
\* sync_release_files starts with self.release_files_sha256().
sync_release ==
    /\ pc = "sync_release"
    /\ LET suite == Head(suites) IN
       IF todo # <<>>
       THEN LET release_file == Head(todo) IN
            \E script \in Scripts(ReleaseBody(release_file, suite, up),
                                  ReleaseDamaged(release_file, suite, up)) :
              LET res == get(release[suite][release_file], script, NoFile,
                             "None", TRUE, FALSE)
              IN  /\ release' = [release EXCEPT ![suite][release_file] =
                                                    res.dest]
                  /\ answer' =
                        ScriptResponse(script, res.attempts - 1).status
                  /\ IF res.exc # "none"
                     THEN EndRun("sync_deb822", Returned(res.exc))
                     ELSE /\ todo' = Tail(todo)
                          /\ UNCHANGED <<pc, lastRun>>
       ELSE LET listed == release_files_sha256(release[suite]["Release"]) IN
            /\ UNCHANGED <<release, answer>>
            /\ IF listed.exc # "none"
               THEN EndRun("sync_deb822", Returned(listed.exc))
               ELSE /\ pc' = "sync_release_files"
                    /\ todo' = listed.items
                    /\ UNCHANGED lastRun
    /\ UNCHANGED <<kind, suites, index, pool, runs>>
    /\ UNCHANGED debFrame

\* One turn of the loop of SyncDeb822.sync_release_files; after the last one
\* sync_package_binary_files starts with
\* self.binary_files_sha256(component="main").
sync_release_files ==
    /\ pc = "sync_release_files"
    /\ LET suite == Head(suites) IN
       IF todo # <<>>
       THEN LET e == Head(todo) IN
            \E script \in Scripts(PackagesBody(suite, e.filename[1], up),
                                  PackagesDamaged(suite, e.filename[1])) :
              LET res == get(index[suite][e.filename], script, File(e.sha256),
                             "sha256", TRUE, TRUE)
              IN  /\ index' = [index EXCEPT ![suite][e.filename] = res.dest]
                  /\ IF res.exc # "none"
                     THEN EndRun("sync_deb822", Returned(res.exc))
                     ELSE /\ todo' = Tail(todo)
                          /\ UNCHANGED <<pc, lastRun>>
       ELSE LET pkgs == binary_files_sha256(index[suite][PackagesGz("main")])
            IN
            /\ UNCHANGED index
            /\ IF pkgs.exc # "none"
               THEN EndRun("sync_deb822", Returned(pkgs.exc))
               ELSE /\ pc' = "sync_package_binary_files"
                    /\ todo' = pkgs.items
                    /\ UNCHANGED lastRun
    /\ UNCHANGED <<kind, suites, release, pool, runs>>
    /\ UNCHANGED answer
    /\ UNCHANGED debFrame

\* One turn of the loop of SyncDeb822.sync_package_binary_files; after the
\* last one the loop of sync goes on to the next suite.
sync_package_binary_files ==
    /\ pc = "sync_package_binary_files"
    /\ IF todo # <<>>
       THEN LET e == Head(todo)
                destination == BlobName(e.filename, "sha256", e.sha256)
            IN
            \E script \in Scripts(DebContent(up), 0) :
              LET res == get(pool[destination], script, File(e.sha256),
                             "sha256", FALSE, FALSE)
              IN  /\ pool' = [pool EXCEPT ![destination] = res.dest]
                  /\ UNCHANGED suites
                  /\ IF res.exc # "none"
                     THEN EndRun("sync_deb822", Returned(res.exc))
                     ELSE /\ todo' = Tail(todo)
                          /\ UNCHANGED <<pc, lastRun>>
       ELSE /\ UNCHANGED pool
            /\ suites' = Tail(suites)
            /\ IF Tail(suites) = <<>>
               THEN EndRun("sync_deb822", "ok")
               ELSE /\ pc' = "sync_release"
                    /\ todo' = ReleaseNames
                    /\ UNCHANGED lastRun
    /\ UNCHANGED <<kind, release, index, runs>>
    /\ UNCHANGED answer
    /\ UNCHANGED debFrame

\* ------------------------------------- Downloader.get, statement by statement
\* A file is the sequence of the chunks written to it.  The upstream's body,
\* the same cut short, the same damaged, and what may be at destination
\* before the call.
Body == <<"x", "y">>
Truncated == <<"x">>
Damaged == <<"x", "z">>
Old == <<"o">>

\* The arguments of a call: a declared checksum of Body or none, a hash type
\* check_hash knows or not, replace, not_found_ok.
GetArgs ==
    [checksum : {NoFile, File(hexdigest("sha256", Body))},
     hash_type : {"sha256", "sha1", "crc32"},
     replace : BOOLEAN,
     not_found_ok : BOOLEAN]

GetIdle ==
    /\ gpc = "idle"
    /\ garg = [checksum |-> NoFile, hash_type |-> "sha256", replace |-> FALSE,
               not_found_ok |-> FALSE]
    /\ gfs = "same"
    /\ gbefore = NoFile
    /\ gdest = NoFile
    /\ gtmp = NoFile
    /\ gretries = 0
    /\ gattempts = 0
    /\ gstatus = 0
    /\ gstream = <<>>
    /\ gexc = "none"

\* The call: tempfile.TemporaryDirectory() is below the system's temporary
\* directory, which is on the filesystem of destination or on another one.
GetInit ==
    /\ gpc = "get"
    /\ garg \in GetArgs
    /\ gfs \in {"same", "other"}
    /\ gbefore \in {NoFile, File(Old)}
    /\ gdest = gbefore
    /\ gtmp = NoFile
    /\ gretries = 0
    /\ gattempts = 0
    /\ gstatus = 0
    /\ gstream = <<>>
    /\ gexc = "none"

getFrame == <<storeVars, inputVars, debVars, runVars, reported, readVars, migVars,
              garg, gfs,
              gbefore>>

\* How get ends: it returns, or raises exc; the with statement has removed
\* the temporary directory.
get_end(exc) ==
    /\ gpc' = IF exc = "none" THEN "returned" ELSE "raised"
    /\ gexc' = exc
    /\ gtmp' = NoFile
    /\ gstream' = <<>>

\* except ConnectionError / except OSRepoSyncHashError: retries -= 1
get_retry ==
    /\ gpc' = "while"
    /\ gretries' = gretries - 1
    /\ gtmp' = NoFile
    /\ gstream' = <<>>
    /\ UNCHANGED gexc

\* An entry that keeps an existing file only when no checksum is passed.
get_enter_checked ==
    /\ gpc = "get"
    /\ IF ~garg.replace /\ gdest # NoFile /\ garg.checksum = NoFile
       THEN get_end("none") /\ UNCHANGED gretries
       ELSE /\ gpc' = "while"
            /\ gretries' = Retries
            /\ UNCHANGED <<gtmp, gstream, gexc>>
    /\ UNCHANGED gdest
    /\ UNCHANGED <<gattempts, gstatus>>
    /\ UNCHANGED getFrame

\* if not replace: if os.path.isfile(destination): return; retries = 10
get_enter ==
    /\ gpc = "get"
    /\ IF ~garg.replace /\ gdest # NoFile
       THEN get_end("none") /\ UNCHANGED gretries
       ELSE /\ gpc' = "while"
            /\ gretries' = Retries
            /\ UNCHANGED <<gtmp, gstream, gexc>>
    /\ UNCHANGED gdest
    /\ UNCHANGED <<gattempts, gstatus>>
    /\ UNCHANGED getFrame

\* while retries >= 0, and after the loop raise OSRepoSyncDownLoadError
get_while ==
    /\ gpc = "while"
    /\ IF gretries >= 0
       THEN /\ gpc' = "requests_get"
            /\ UNCHANGED <<gtmp, gstream, gexc>>
       ELSE get_end("OSRepoSyncDownLoadError")
    /\ UNCHANGED <<gdest, gretries>>
    /\ UNCHANGED <<gattempts, gstatus>>
    /\ UNCHANGED getFrame

\* A request whose error status is handled like a transport failure.
get_requests_get_retry ==
    /\ gpc = "requests_get"
    /\ \E r \in Responses(Body, Truncated) \cup Responses(Body, Damaged) :
         /\ gstatus' = r.status
         /\ IF r.status = 0 THEN get_retry
            ELSE IF r.status = 200
            THEN /\ gpc' = "copyfileobj"
                 /\ gtmp' = File(<<>>)
                 /\ gstream' = r.body
                 /\ UNCHANGED <<gretries, gexc>>
            ELSE IF garg.not_found_ok /\ r.status = 404
            THEN /\ gpc' = "move"
                 /\ UNCHANGED <<gtmp, gstream, gretries, gexc>>
            ELSE get_retry
    /\ UNCHANGED gdest
    /\ gattempts' = gattempts + 1
    /\ UNCHANGED getFrame

\* A request whose body is written over the file at destination, with no
\* temporary file in between.
get_requests_get_inplace ==
    /\ gpc = "requests_get"
    /\ \E r \in Responses(Body, Truncated) \cup Responses(Body, Damaged) :
         /\ gstatus' = r.status
         /\ IF r.status = 0 THEN get_retry /\ UNCHANGED gdest
            ELSE IF r.status = 200
            THEN /\ gpc' = "copyfileobj"
                 /\ gtmp' = File(<<>>)
                 /\ gdest' = File(<<>>)
                 /\ gstream' = r.body
                 /\ UNCHANGED <<gretries, gexc>>
            ELSE IF garg.not_found_ok /\ r.status = 404
            THEN /\ gpc' = "move"
                 /\ UNCHANGED <<gdest, gtmp, gstream, gretries, gexc>>
            ELSE /\ get_end("OSRepoSyncDownLoadError")
                 /\ UNCHANGED <<gdest, gretries>>
    /\ gattempts' = gattempts + 1
    /\ UNCHANGED getFrame

\* Downloader._get up to the copy of the body: requests.get and the test of
\* the status; open(destination, "wb") creates the temporary file.
get_requests_get ==
    /\ gpc = "requests_get"
    /\ \E r \in Responses(Body, Truncated) \cup Responses(Body, Damaged) :
         /\ gstatus' = r.status
         /\ IF r.status = 0 THEN get_retry
            ELSE IF r.status = 200
            THEN /\ gpc' = "copyfileobj"
                 /\ gtmp' = File(<<>>)
                 /\ gstream' = r.body
                 /\ UNCHANGED <<gretries, gexc>>
            ELSE IF garg.not_found_ok /\ r.status = 404
            THEN /\ gpc' = "move"
                 /\ UNCHANGED <<gtmp, gstream, gretries, gexc>>
            ELSE get_end("OSRepoSyncDownLoadError") /\ UNCHANGED gretries
    /\ UNCHANGED gdest
    /\ gattempts' = gattempts + 1
    /\ UNCHANGED getFrame

\* shutil.copyfileobj(r.raw, dst), a chunk at a time; then `if checksum`
get_copyfileobj ==
    /\ gpc = "copyfileobj"
    /\ IF gstream # <<>>
       THEN /\ gtmp' = File(Append(Content(gtmp), Head(gstream)))
            /\ gstream' = Tail(gstream)
            /\ UNCHANGED gpc
       ELSE /\ gpc' = IF garg.checksum # NoFile THEN "check_hash" ELSE "move"
            /\ UNCHANGED <<gtmp, gstream>>
    /\ UNCHANGED <<gdest, gretries, gexc>>
    /\ UNCHANGED <<gattempts, gstatus>>
    /\ UNCHANGED getFrame

\* self.check_hash(destination=tmp_file, ...) and the except clauses of get
get_check_hash ==
    /\ gpc = "check_hash"
    /\ LET exc == check_hash(gtmp, Content(garg.checksum), garg.hash_type) IN
       IF exc = "none"
       THEN /\ gpc' = "move"
            /\ UNCHANGED <<gtmp, gstream, gretries, gexc>>
       ELSE IF exc = "OSRepoSyncHashError" THEN get_retry
       ELSE get_end(exc) /\ UNCHANGED gretries
    /\ UNCHANGED gdest
    /\ UNCHANGED <<gattempts, gstatus>>
    /\ UNCHANGED getFrame

\* A move whose OSError get does not pass over.
get_move_raise ==
    /\ gpc = "move"
    /\ IF gtmp = NoFile
       THEN /\ get_end("OSError")
            /\ UNCHANGED gdest
       ELSE IF gfs = "same"
       THEN /\ gdest' = gtmp
            /\ get_end("none")
       ELSE /\ gdest' = File(<<>>)
            /\ gstream' = Content(gtmp)
            /\ gpc' = "copy"
            /\ UNCHANGED <<gtmp, gexc>>
    /\ UNCHANGED gretries
    /\ UNCHANGED <<gattempts, gstatus>>
    /\ UNCHANGED getFrame

\* shutil.move(tmp_file, destination): os.rename on one filesystem; across
\* filesystems os.rename fails and move copies the file to destination and
\* then unlinks the source.  Without a temporary file it raises OSError,
\* which get passes over when not_found_ok.
get_move ==
    /\ gpc = "move"
    /\ IF gtmp = NoFile
       THEN /\ get_end(IF garg.not_found_ok THEN "none" ELSE "OSError")
            /\ UNCHANGED gdest
       ELSE IF gfs = "same"
       THEN /\ gdest' = gtmp
            /\ get_end("none")
       ELSE /\ gdest' = File(<<>>)
            /\ gstream' = Content(gtmp)
            /\ gpc' = "copy"
            /\ UNCHANGED <<gtmp, gexc>>
    /\ UNCHANGED gretries
    /\ UNCHANGED <<gattempts, gstatus>>
    /\ UNCHANGED getFrame

\* The copy of shutil.move, a chunk at a time, and os.unlink of the source.
get_copy ==
    /\ gpc = "copy"
    /\ IF gstream # <<>>
       THEN /\ gdest' = File(Append(Content(gdest), Head(gstream)))
            /\ gstream' = Tail(gstream)
            /\ UNCHANGED <<gpc, gtmp, gexc>>
       ELSE /\ get_end("none")
            /\ UNCHANGED gdest
    /\ UNCHANGED gretries
    /\ UNCHANGED <<gattempts, gstatus>>
    /\ UNCHANGED getFrame

\* The host stops the process between two statements of get.
get_kill ==
    /\ gpc \notin {"idle", "returned", "raised", "killed"}
    /\ gpc' = "killed"
    /\ UNCHANGED <<gdest, gtmp, gretries, gstream, gexc>>
    /\ UNCHANGED <<gattempts, gstatus>>
    /\ UNCHANGED getFrame

GetNext ==
    \/ get_enter \/ get_while \/ get_requests_get \/ get_copyfileobj
    \/ get_check_hash \/ get_move \/ get_copy \/ get_kill

\* ------------------------------------------------------------ the job runner
MaxJobs == 3
MaxWorkers == 2
MaxRan == 2

Jobs == 1..MaxJobs
Workers == 1..MaxWorkers

\* The verbs of the command line that matter to work(): "sync" runs
\* `downloaders` workers, every other verb one.
Methods == {"sync", "snap"}

\* What a job's verb can end with: it returns, or raises a domain error, or
\* any other exception, of which run() catches IndexError.
JobExceptions == {"none", "OSRepoSyncException", "FileNotFoundError",
                  "IndexError"}

\* The deques work() can build: the sections' job sets, every job in one.
RECURSIVE Queues(_)
Queues(first) ==
    IF first > MaxJobs THEN {<<>>}
    ELSE UNION {{<<first..last>> \o q : q \in Queues(last + 1)} :
                   last \in first..MaxJobs}

\* config.getint("main", "downloaders", fallback=1)
getint(option, fallback) == IF option = NoFile THEN fallback ELSE Content(option)

\* A count of workers that follows the option for every verb.
num_workers_any(verb, option) == getint(option, 1)

\* The branch of work() on self.method that sets num_worker.
num_workers(verb, option) == IF verb = "sync" THEN getint(option, 1) ELSE 1

RunIdle ==
    /\ config = <<>>
    /\ downloaders = NoFile
    /\ method = "none"
    /\ num_worker = 0
    /\ queue = <<>>
    /\ mpc = "idle"
    /\ wpc = [w \in Workers |-> "none"]
    /\ wjobs = [w \in Workers |-> {}]
    /\ status = [w \in Workers |-> 0]
    /\ ran = [j \in Jobs |-> <<>>]
    /\ outcome = [j \in Jobs |-> "unrun"]
    /\ joined = {}
    /\ return_code = 0

\* PyRepoSync.work up to the start of the workers.
RunInit ==
    /\ config = <<>>
    /\ method \in Methods
    /\ downloaders \in (IF method = "sync" THEN {File(n) : n \in Workers}
                        ELSE {NoFile})
    /\ num_worker = num_workers(method, downloaders)
    /\ queue \in Queues(1)
    /\ mpc = "start"
    /\ wpc = [w \in Workers |-> IF w <= num_worker THEN "created" ELSE "none"]
    /\ wjobs = [w \in Workers |-> {}]
    /\ status = [w \in Workers |-> 0]
    /\ ran = [j \in Jobs |-> <<>>]
    /\ outcome = [j \in Jobs |-> "unrun"]
    /\ joined = {}
    /\ return_code = 0

\* ------------------------------------------------------- the configuration
\* A string is the sequence of its parts; ":VERSION:" is the placeholder of
\* a section name.
Placeholder == ":VERSION:"

\* str.replace(old, new), new being a string
RECURSIVE replace(_, _, _)
replace(str, old, new) ==
    IF str = <<>> THEN <<>>
    ELSE (IF Head(str) = old THEN new ELSE <<Head(str)>>)
         \o replace(Tail(str), old, new)

\* The sections a configuration file can hold: the name without ":rpm", and
\* the option versions split at "," (<<>>: the option is not set).
SectionNames == {<<"el", "8">>, <<"el", Placeholder>>, <<"app">>}
VersionLists == {<<>>, <<<<"8">>>>, <<<<"8">>, <<"9">>>>}
Sections == [name : SectionNames, versions : VersionLists]

\* PyRepoSync.get_jobs: the reponames of the jobs of a section, in the order
\* of their creation.
get_jobs(section) ==
    IF section.versions # <<>>
    THEN [i \in 1..Len(section.versions) |->
             replace(section.name, Placeholder, section.versions[i])]
    ELSE <<section.name>>

\* The jobs of a configuration: every job's reponame and the number of its
\* section, jobs numbered in the order of their creation.
RECURSIVE JobsOf(_, _)
JobsOf(cfg, n) ==
    IF n > Len(cfg) THEN <<>>
    ELSE [i \in 1..Len(get_jobs(cfg[n])) |->
             [reponame |-> get_jobs(cfg[n])[i], section |-> n]]
         \o JobsOf(cfg, n + 1)

\* The loop of work() over get_sections(): one job set per section.
QueueOf(cfg) ==
    [n \in 1..Len(cfg) |->
        {j \in 1..Len(JobsOf(cfg, 1)) : JobsOf(cfg, 1)[j].section = n}]

\* The configurations configparser reads: no two sections of one name.
\* (Those of MaxJobs jobs.)
Configs ==
    {cfg \in UNION {[1..n -> Sections] : n \in 1..MaxJobs} :
        /\ \A a, b \in 1..Len(cfg) : a # b => cfg[a].name # cfg[b].name
        /\ Len(JobsOf(cfg, 1)) = MaxJobs}

\* PyRepoSync.work up to the start of the workers, from a configuration.
ConfInit ==
    /\ config \in Configs
    /\ method \in Methods
    /\ downloaders \in (IF method = "sync" THEN {File(n) : n \in Workers}
                        ELSE {NoFile})
    /\ num_worker = num_workers(method, downloaders)
    /\ queue = QueueOf(config)
    /\ mpc = "start"
    /\ wpc = [w \in Workers |-> IF w <= num_worker THEN "created" ELSE "none"]
    /\ wjobs = [w \in Workers |-> {}]
    /\ status = [w \in Workers |-> 0]
    /\ ran = [j \in Jobs |-> <<>>]
    /\ outcome = [j \in Jobs |-> "unrun"]
    /\ joined = {}
    /\ return_code = 0

\* ------------------------------------------------ --repo and --tags
\* A tag of --tags is a string, negated by a leading "!"; a section's option
\* tags is the set of the strings between its commas, when it is set.
TagNames == {<<"x">>, <<"y">>}
TagArgValues == TagNames \cup {<<"!">> \o t : t \in TagNames}
TagsArgs == {<<>>} \cup [1..1 -> TagArgValues] \cup [1..2 -> TagArgValues]
RepoNames == {<<"app">>, <<"el", "8">>}
RepoArgs == {<<>>} \cup RepoNames
TaggedSections ==
    {sec \in [name : RepoNames, versions : {<<>>}, has_tags : BOOLEAN,
              tags : SUBSET TagNames] : ~sec.has_tags => sec.tags = {}}
TaggedConfigs ==
    {cfg \in [1..1 -> TaggedSections] \cup [1..2 -> TaggedSections] :
        \A a, b \in 1..Len(cfg) : a # b => cfg[a].name # cfg[b].name}

\* PyRepoSync.validate_tags: the loop over self.tags from its i-th tag on.
RECURSIVE validate_tags_loop(_, _, _)
validate_tags_loop(section_tags, tagList, i) ==
    IF i > Len(tagList) THEN TRUE
    ELSE LET tag == tagList[i] IN
         IF Head(tag) = "!"
         THEN IF Tail(tag) \in section_tags THEN FALSE
              ELSE validate_tags_loop(section_tags, tagList, i + 1)
         ELSE IF tag \notin section_tags THEN FALSE
              ELSE validate_tags_loop(section_tags, tagList, i + 1)

validate_tags(section, tagList) ==
    IF ~section.has_tags THEN FALSE
    ELSE validate_tags_loop(section.tags, tagList, 1)

\* PyRepoSync.get_sections: the numbers of the sections it adds.
get_sections(cfg, repoArg, tagList) ==
    {n \in 1..Len(cfg) :
        /\ ~(repoArg # <<>> /\ cfg[n].name # repoArg)
        /\ ~(tagList # <<>> /\ ~validate_tags(cfg[n], tagList))}

\* The job sets of the selected sections, in the order of the sections.
RECURSIVE QueueOfSelected(_, _, _)
QueueOfSelected(cfg, selected, n) ==
    IF n > Len(cfg) THEN <<>>
    ELSE (IF n \in selected THEN <<QueueOf(cfg)[n]>> ELSE <<>>)
         \o QueueOfSelected(cfg, selected, n + 1)

\* PyRepoSync.__init__ has returned: the command line is parsed, the
\* configuration read.
SelectInit ==
    /\ config \in TaggedConfigs
    /\ repo \in RepoArgs
    /\ tags \in TagsArgs
    /\ method = "snap"
    /\ downloaders = NoFile
    /\ num_worker = 0
    /\ queue = <<>>
    /\ mpc = "init"
    /\ wpc = [w \in Workers |-> "none"]
    /\ wjobs = [w \in Workers |-> {}]
    /\ status = [w \in Workers |-> 0]
    /\ ran = [j \in Jobs |-> <<>>]
    /\ outcome = [j \in Jobs |-> "unrun"]
    /\ joined = {}
    /\ return_code = 0

runFrame == <<storeVars, inputVars, debVars, getVars, reported, readVars, migVars,
              config,
              downloaders, method, num_worker>>

\* worker.start() in the first loop of work(), and the end of that loop.
work_start ==
    /\ mpc = "start"
    /\ IF \E w \in Workers : wpc[w] = "created"
       THEN /\ \E w \in Workers :
                 /\ wpc[w] = "created"
                 /\ wpc' = [wpc EXCEPT ![w] = "pop"]
            /\ UNCHANGED mpc
       ELSE /\ mpc' = "join"
            /\ UNCHANGED wpc
    /\ UNCHANGED <<queue, wjobs, status, ran, outcome, joined, return_code>>
    /\ UNCHANGED runFrame

\* PyRepoSync.work up to the creation of the workers: the queue of the job
\* sets of get_sections().
work_enqueue ==
    /\ mpc = "init"
    /\ queue' = QueueOfSelected(config, get_sections(config, repo, tags), 1)
    /\ num_worker' = num_workers(method, downloaders)
    /\ wpc' = [w \in Workers |-> IF w <= num_worker' THEN "created" ELSE "none"]
    /\ mpc' = "start"
    /\ UNCHANGED <<wjobs, status, ran, outcome, joined, return_code>>
    /\ UNCHANGED <<storeVars, inputVars, debVars, getVars, reported, readVars, migVars,
                   config,
                   downloaders, method>>

\* A pop that leaves the element in the deque.
pop_peek(q) == [item |-> q[Len(q)], rest |-> q]

\* collections.deque.pop(): the rightmost element and the deque without it.
pop(q) == [item |-> q[Len(q)], rest |-> SubSeq(q, 1, Len(q) - 1)]

\* A pop that waits for an element when the deque is empty.
run_pop_wait(w) ==
    /\ wpc[w] = "pop"
    /\ IF queue = <<>>
       THEN UNCHANGED <<wpc, queue, wjobs>>
       ELSE /\ queue' = pop(queue).rest
            /\ wjobs' = [wjobs EXCEPT ![w] = pop(queue).item]
            /\ wpc' = [wpc EXCEPT ![w] = "do"]
    /\ UNCHANGED <<mpc, status, ran, outcome, joined, return_code>>
    /\ UNCHANGED runFrame

\* RepoSyncThread.run: jobs = self.queue.pop(), IndexError ends the loop.
run_pop(w) ==
    /\ wpc[w] = "pop"
    /\ IF queue = <<>>
       THEN /\ wpc' = [wpc EXCEPT ![w] = "ended"]
            /\ UNCHANGED <<queue, wjobs>>
       ELSE /\ queue' = pop(queue).rest
            /\ wjobs' = [wjobs EXCEPT ![w] = pop(queue).item]
            /\ wpc' = [wpc EXCEPT ![w] = "do"]
    /\ UNCHANGED <<mpc, status, ran, outcome, joined, return_code>>
    /\ UNCHANGED runFrame

\* One turn of the loop of RepoSyncThread.do_sync (do_snap, ...): the job's
\* verb, `except OSRepoSyncException: self.status = 1`; IndexError ends the
\* loop of run(), any other exception the thread.  After the last turn run()
\* pops again.
do_job(w) ==
    /\ wpc[w] = "do"
    /\ IF wjobs[w] = {}
       THEN /\ wpc' = [wpc EXCEPT ![w] = "pop"]
            /\ UNCHANGED <<wjobs, status, ran, outcome>>
       ELSE \E job \in wjobs[w], exc \in JobExceptions :
              /\ Len(ran[job]) < MaxRan
              /\ ran' = [ran EXCEPT ![job] = Append(@, w)]
              /\ outcome' = [outcome EXCEPT ![job] = exc]
              /\ wjobs' = [wjobs EXCEPT ![w] = @ \ {job}]
              /\ status' = IF exc \in OSRepoSyncExceptions
                           THEN [status EXCEPT ![w] = 1]
                           ELSE status
              /\ wpc' = IF Outcome(exc) = "crash"
                        THEN [wpc EXCEPT ![w] = "ended"]
                        ELSE wpc
    /\ UNCHANGED <<queue, mpc, joined, return_code>>
    /\ UNCHANGED runFrame

\* One turn of the second loop of work(): worker.join() returns when the
\* worker has ended; `if worker.status != 0: return_code = 1`.
work_join(w) ==
    /\ mpc = "join"
    /\ w \notin joined
    /\ wpc[w] = "ended"
    /\ joined' = joined \cup {w}
    /\ return_code' = IF status[w] # 0 THEN 1 ELSE return_code
    /\ UNCHANGED <<queue, mpc, wpc, wjobs, status, ran, outcome>>
    /\ UNCHANGED runFrame

\* sys.exit(return_code)
work_exit ==
    /\ mpc = "join"
    /\ joined = {w \in Workers : w <= num_worker}
    /\ mpc' = "exit"
    /\ UNCHANGED <<queue, wpc, wjobs, status, ran, outcome, joined,
                   return_code>>
    /\ UNCHANGED runFrame

RunNext ==
    \/ work_start
    \/ \E w \in Workers : run_pop(w)
    \/ \E w \in Workers : do_job(w)
    \/ \E w \in Workers : work_join(w)
    \/ work_exit

\* ------------------------------------------------------- the specifications
vars == <<storeVars, inputVars, debVars, getVars, runVars, reported, readVars,
        migVars>>

\* The option no statement reads is left unset where it is not the subject,
\* and --name is given one name.
NoSelection == repo = <<>> /\ tags = <<>>
OptionUnset ==
    allow_missing_packages = FALSE /\ snapnames = {"prod"} /\ NoSelection

\* Spec: the verbs on one RPM repository's tree.
Init == StoreInit /\ OptionUnset /\ kind = "rpm" /\ DebInit /\ GetIdle /\ RunIdle
Next == StoreNext
Spec == Init /\ [][Next]_vars

\* SpecBlobs: the verbs on one RPM repository's tree while the clock stands
\* still.
BlobsNext ==
    \/ StartSync \/ sync_rmtree \/ sync_repomd \/ sync_repomd_files
    \/ sync_packages \/ sync_treeinfo \/ sync_treeinfo_files
    \/ StartSnap \/ snap_repodata \/ snap_repodata_files \/ snap_treeinfo
    \/ snap_treeinfo_files \/ snap_packages
    \/ snap_unlink \/ snap_symlink \/ snap_timestamp
    \/ snap_cleanup \/ snap_name \/ snap_unname
    \/ Kill \/ Publish
SpecBlobs == Init /\ [][BlobsNext]_vars

\* SpecAlias: the verbs on one RPM repository's tree, --name given one of two
\* names, the upstream publishing one revision.
AliasNext ==
    \/ StartSync \/ sync_rmtree \/ sync_repomd \/ sync_repomd_files
    \/ sync_packages \/ sync_treeinfo \/ sync_treeinfo_files
    \/ StartSnap \/ snap_repodata \/ snap_repodata_files \/ snap_treeinfo
    \/ snap_treeinfo_files \/ snap_packages
    \/ snap_unlink \/ snap_symlink \/ snap_timestamp
    \/ snap_cleanup \/ snap_name \/ snap_unname
    \/ Kill \/ Tick
InitAlias ==
    /\ StoreInit /\ kind = "rpm" /\ DebInit /\ GetIdle /\ RunIdle
    /\ allow_missing_packages = FALSE
    /\ snapnames = Names
    /\ NoSelection
SpecAlias == InitAlias /\ [][AliasNext]_vars

\* SpecValidate: sync and validate on one RPM repository whose blobs the
\* disk may damage.
ValidateNext ==
    \/ StartSync \/ sync_rmtree \/ sync_repomd \/ sync_repomd_files
    \/ sync_packages \/ sync_treeinfo \/ sync_treeinfo_files
    \/ StartValidate \/ do_validate
    \/ Truncate \/ Publish
SpecValidate == Init /\ [][ValidateNext]_vars

\* SpecLater: sync, snap and snap_cleanup on a repository that was mirrored
\* and snapshotted before.  A sync of revision r that returned leaves
\* SyncedTree(r); a snap of that tree that returned leaves SnapOf(r).
SyncedBlobs(r) ==
    [b \in BlobNames |->
        IF \E p \in Pkgs :
              b = BlobName(p, UpHashType, hexdigest(hasher(UpHashType), r[p]))
        THEN File(r[b[1]]) ELSE NoFile]
SnapOf(r) ==
    [dir |-> TRUE, repomd |-> File(RepomdDoc(r)),
     meta |-> [l \in MetaLocs |-> File(MetaContent(l, r))],
     links |-> [p \in Pkgs |->
                  File(BlobName(p, UpHashType,
                                hexdigest(hasher(UpHashType), r[p])))],
     timestamp |-> TRUE]
Snapshotted ==
    /\ pc = "idle" /\ lastRun = [verb |-> "snap", result |-> "ok"]
    /\ up = Revision(1) /\ clock = 1 /\ date = 1 /\ latest = 1
    /\ repomd = File(RepomdDoc(up))
    /\ meta = [l \in MetaLocs |-> File(MetaContent(l, up))]
    /\ blobs = SyncedBlobs(up)
    /\ snaps = [d \in Dates |-> IF d = 1 THEN SnapOf(up) ELSE NoSnap]
    /\ treeinfo = upTreeinfo
    /\ images = [f \in TreeFiles |->
                   IF upTreeinfo = NoFile THEN NoFile ELSE File("iso")]
    /\ stray = [dir |-> upTreeinfo # NoFile, treeinfo |-> NoFile,
                images |-> images]
    /\ removed = {} /\ named_dir = FALSE /\ named = [n \in Names |-> 0]
StoreLater ==
    /\ upTreeinfo \in {NoFile, File(TreeinfoDoc)}
    /\ Snapshotted
    /\ reported = {} /\ todo = <<>> /\ runs = 0
InitLater ==
    /\ OptionUnset /\ kind = "rpm" /\ DebInit /\ GetIdle /\ RunIdle
    /\ StoreLater
LaterNext ==
    \/ StartSync \/ sync_rmtree \/ sync_repomd \/ sync_repomd_files
    \/ sync_packages \/ sync_treeinfo \/ sync_treeinfo_files
    \/ StartSnap \/ snap_repodata \/ snap_repodata_files \/ snap_treeinfo
    \/ snap_treeinfo_files \/ snap_packages
    \/ snap_unlink \/ snap_symlink \/ snap_timestamp
    \/ snap_cleanup \/ Publish \/ Tick
SpecLater == InitLater /\ [][LaterNext]_vars

\* SpecSnaps: snap, snap_cleanup, snap_name and snap_unname, none of them
\* stopped, on a repository whose sync tree is empty or mirrored, --name
\* given one of two names.
SnapsNext ==
    \/ StartSnap \/ snap_repodata \/ snap_repodata_files \/ snap_treeinfo
    \/ snap_treeinfo_files \/ snap_packages
    \/ snap_unlink \/ snap_symlink \/ snap_timestamp
    \/ snap_cleanup \/ snap_name \/ snap_unname
    \/ Tick
InitSnaps ==
    /\ kind = "rpm" /\ DebInit /\ GetIdle /\ RunIdle
    /\ allow_missing_packages = FALSE /\ snapnames = Names /\ NoSelection
    /\ (StoreInit \/ StoreLater)
SpecSnaps == InitSnaps /\ [][SnapsNext]_vars

\* SpecStopped: the same verbs on the same repository, the host stopping a
\* run at any step.
StoppedNext ==
    \/ StartSnap \/ snap_repodata \/ snap_repodata_files \/ snap_treeinfo
    \/ snap_treeinfo_files \/ snap_packages
    \/ snap_unlink \/ snap_symlink \/ snap_timestamp
    \/ snap_cleanup \/ snap_name \/ snap_unname
    \/ Kill \/ Tick
SpecStopped == InitSnaps /\ [][StoppedNext]_vars

\* SpecSync: sync runs on an RPM and on a Debian repository.
SyncNext ==
    \/ StartSync \/ sync_rmtree \/ sync_repomd \/ sync_repomd_files
    \/ sync_packages \/ sync_treeinfo \/ sync_treeinfo_files
    \/ StartSyncDeb822 \/ sync_release \/ sync_release_files
    \/ sync_package_binary_files
    \/ Kill \/ Publish
InitSync ==
    /\ StoreInit /\ kind \in {"rpm", "deb822"} /\ DebInit /\ GetIdle /\ RunIdle
    /\ allow_missing_packages \in BOOLEAN
    /\ snapnames = {"prod"}
    /\ NoSelection
SpecSync == InitSync /\ [][SyncNext]_vars

\* SpecGet: one call of Downloader.get.
InitGet == StoreInit /\ OptionUnset /\ kind = "rpm" /\ DebInit /\ GetInit /\ RunIdle
SpecGet == InitGet /\ [][GetNext]_vars

\* SpecRun: one run of the program.
InitRun == StoreInit /\ OptionUnset /\ kind = "rpm" /\ DebInit /\ GetIdle /\ RunInit
SpecRun == InitRun /\ [][RunNext]_vars

\* SpecConf: one run of the program on a configuration file.
InitConf == StoreInit /\ OptionUnset /\ kind = "rpm" /\ DebInit /\ GetIdle /\ ConfInit
SpecConf == InitConf /\ [][RunNext]_vars

\* SpecSelect: one run of the program with --repo and --tags.
SelectNext ==
    \/ work_enqueue
    \/ work_start
    \/ \E w \in Workers : run_pop(w)
    \/ \E w \in Workers : do_job(w)
    \/ \E w \in Workers : work_join(w)
    \/ work_exit
InitSelect ==
    /\ StoreInit /\ kind = "rpm" /\ DebInit /\ GetIdle /\ SelectInit
    /\ allow_missing_packages = FALSE /\ snapnames = {"prod"}
SpecSelect == InitSelect /\ [][SelectNext]_vars

\* SpecWork: one run of the program from the return of __init__, for both
\* kinds of verb, every value of downloaders and --repo, on one or two
\* sections.  SpecWorkFair: the same, the scheduler never leaving a thread
\* that can step waiting forever.
WorkInit ==
    /\ config \in {cfg \in TaggedConfigs :
                      \A n \in 1..Len(cfg) : ~cfg[n].has_tags}
    /\ repo \in RepoArgs
    /\ tags = <<>>
    /\ method \in Methods
    /\ downloaders \in {NoFile} \cup {File(n) : n \in 0..MaxWorkers}
    /\ num_worker = 0
    /\ queue = <<>>
    /\ mpc = "init"
    /\ wpc = [w \in Workers |-> "none"]
    /\ wjobs = [w \in Workers |-> {}]
    /\ status = [w \in Workers |-> 0]
    /\ ran = [j \in Jobs |-> <<>>]
    /\ outcome = [j \in Jobs |-> "unrun"]
    /\ joined = {}
    /\ return_code = 0
InitWork ==
    /\ StoreInit /\ kind = "rpm" /\ DebInit /\ GetIdle /\ WorkInit
    /\ allow_missing_packages = FALSE /\ snapnames = {"prod"}
SpecWork == InitWork /\ [][SelectNext]_vars
SpecWorkFair == SpecWork /\ WF_vars(SelectNext)

\* SpecPackages: one call of binary_files_sha256 on a Packages.gz of up to
\* MaxRecords records.
InitPackages ==
    /\ StoreInit /\ OptionUnset /\ kind = "deb" /\ DebIdle /\ GetIdle /\ RunIdle
    /\ MigrateIdle
    /\ source \in PackagesFiles(MaxRecords)
    /\ parsed = NoFile
PackagesNext == read_packages
SpecPackages == InitPackages /\ [][PackagesNext]_vars

\* SpecMigrate: migrate runs on a repository of the old layout (packages
\* under <location>, the links of the snapshots pointing at them), whole or
\* damaged and without .treeinfo, and on a repository the present sync and
\* snap have written.
OldSnapOf(r) ==
    [dir |-> TRUE, repomd |-> File(RepomdDoc(r)),
     meta |-> [l \in MetaLocs |-> File(MetaContent(l, r))],
     links |-> [p \in Pkgs |-> File(PlainName(p))],
     timestamp |-> TRUE]
OldLayout ==
    /\ upTreeinfo = NoFile /\ treeinfo = NoFile
    /\ images = [f \in TreeFiles |-> NoFile] /\ stray = NoStray
    /\ pc = "idle" /\ lastRun = [verb |-> "snap", result |-> "ok"]
    /\ up = Revision(1) /\ clock = 1 /\ date = 1 /\ latest = 1
    /\ repomd \in {NoFile, File(RepomdDoc(up))}
    /\ meta = [l \in MetaLocs |->
                 IF repomd = NoFile THEN NoFile ELSE File(MetaContent(l, up))]
    /\ blobs = [b \in BlobNames |-> NoFile]
    /\ plain \in {f \in [Pkgs -> {NoFile} \cup {File(up[p]) : p \in Pkgs}] :
                     \A p \in Pkgs : f[p] \in {NoFile, File(up[p])}}
    /\ snaps \in {f \in [Dates -> {NoSnap, OldSnapOf(up),
                                      [NoSnap EXCEPT !.dir = TRUE]}] :
                     f[1] = OldSnapOf(up)}
    /\ removed = {} /\ named_dir = FALSE /\ named = [n \in Names |-> 0]
    /\ reported = {} /\ todo = <<>> /\ runs = 0
    /\ migrated = FALSE /\ snaplist = <<>>
InitMigrate ==
    /\ OptionUnset /\ kind = "rpm" /\ DebIdle /\ ReadIdle /\ GetIdle /\ RunIdle
    /\ (OldLayout \/ (StoreLater /\ MigrateIdle))
MigrateNext ==
    \/ StartMigrate \/ migrate_rename \/ migrate_snap \/ migrate_relink
SpecMigrate == InitMigrate /\ [][MigrateNext]_vars

\* ------------------------------------------------------------- properties
\* The referenced set R = {target(latest)} \cup {target(named/<n>)} of a
\* store with the given aliases.
Referenced(l, nm) ==
    (IF l # 0 THEN {l} ELSE {}) \cup {nm[n] : n \in {m \in Names : nm[m] # 0}}

\* C1: whenever the latest symlink exists, the snapshot directory it points
\* at contains the timestamp file.
C1_LatestHasTimestamp ==
    latest # 0 => snaps[latest].dir /\ snaps[latest].timestamp

\* C2: every package symlink inside a snapshot directory that has a
\* timestamp file resolves to an existing file under sync/<reponame>/.
C2_SnapshotLinksResolve ==
    \A d \in Dates :
        snaps[d].timestamp =>
            \A p \in Pkgs :
                snaps[d].links[p] # NoFile =>
                    blobs[Content(snaps[d].links[p])] # NoFile

\* C3: a snap_cleanup step removes no snapshot directory that latest or a
\* named alias points at, leaves only snapshot directories of the referenced
\* set, and every alias that resolved before it resolves after it.
C3_CleanupKeepsReferenced ==
    [][snap_cleanup =>
        /\ \A d \in Dates :
              (snaps[d].dir /\ d \in Referenced(latest, named))
                  => snaps'[d] = snaps[d]
        /\ \A d \in Dates : snaps'[d].dir => d \in Referenced(latest', named')
        /\ (latest # 0 /\ snaps[latest].dir)
              => (latest' = latest /\ snaps'[latest'].dir)
        /\ \A n \in Names :
              (named[n] # 0 /\ snaps[named[n]].dir)
                  => (named'[n] = named[n] /\ snaps'[named'[n]].dir)
    ]_vars

\* A cleanup has removed a snapshot directory and kept a referenced one.
C3_Witness ==
    /\ lastRun.verb = "snap_cleanup"
    /\ removed \cap Dates # {}
    /\ \E d \in Referenced(latest, named) : snaps[d].dir

\* C4: a snap stopped by the host before it completes leaves a snapshot
\* directory without timestamp file that latest does not point at, and the
\* snap_cleanup that follows removes that directory (unless it has been given
\* a name).
C4_InterruptedSnapIsCollected ==
    /\ [][(Kill /\ lastRun.verb = "snap" /\ snaps[date].dir) =>
             (~snaps'[date].timestamp /\ latest' # date)]_vars
    /\ [][(/\ snap_cleanup
           /\ lastRun = [verb |-> "snap", result |-> "killed"]
           /\ \A n \in Names : named[n] # date) =>
             ~snaps'[date].dir]_vars

\* The packages a Debian sync tree declares: those of every Packages.gz in
\* it that parses.
DebDeclared ==
    UNION {LET pkgs == binary_files_sha256(index[s][f]).items
           IN  {pkgs[i] : i \in 1..Len(pkgs)} :
              s \in SuiteSet, f \in IndexNames}

\* C5: after a sync that returned without error, every package the metadata
\* in the sync tree declares has its blob <path>.<algo>.<hex> on disk, and
\* the blob's digest under algo is hex.
C5_DeclaredPackagesPresent ==
    /\ lastRun = [verb |-> "sync", result |-> "ok"] =>
         LET pkgs == packages(repomd, meta).items IN
         \A i \in 1..Len(pkgs) :
            LET b == blobs[BlobName(pkgs[i].location, pkgs[i].hash_algo,
                                    pkgs[i].hash_sum)]
            IN  /\ b # NoFile
                /\ hexdigest(hasher(pkgs[i].hash_algo), Content(b))
                      = pkgs[i].hash_sum
    /\ lastRun = [verb |-> "sync_deb822", result |-> "ok"] =>
         \A e \in DebDeclared :
            LET b == pool[BlobName(e.filename, "sha256", e.sha256)]
            IN  /\ b # NoFile
                /\ hexdigest("sha256", Content(b)) = e.sha256

\* C6: while get runs with a declared checksum, the file at destination is
\* absent, or the one that was there before the call, or one whose digest is
\* the declared checksum.
C6_FinalNameNeverPartial ==
    (gpc # "idle" /\ garg.checksum # NoFile) =>
        \/ gdest = NoFile
        \/ gdest = gbefore
        \/ hexdigest(hasher(garg.hash_type), Content(gdest))
              = Content(garg.checksum)

\* The metadata of the RPM repository is on disk with its declared hashes.
RpmMetadataVerified ==
    /\ repomd_files(repomd).exc = "none"
    /\ LET listed == repomd_files(repomd).items IN
       \A i \in 1..Len(listed) :
          /\ meta[listed[i].location] # NoFile
          /\ hexdigest(hasher(listed[i].hash_type),
                       Content(meta[listed[i].location])) = listed[i].hash_sum

\* Release of suite s and every index file it lists are on disk with their
\* declared hashes.
DebMetadataVerified(s) ==
    /\ release[s]["Release"] # NoFile
    /\ LET listed == release_files_sha256(release[s]["Release"]).items IN
       \A i \in 1..Len(listed) :
          /\ index[s][listed[i].filename] # NoFile
          /\ hexdigest("sha256", Content(index[s][listed[i].filename]))
                = listed[i].sha256

\* C7: a step of sync that starts the fetch of a package blob finds the
\* repository's metadata on disk and verified: repomd.xml and every file it
\* lists; Release and every index file it lists, for every suite.
C7_MetadataBeforePackages ==
    [][/\ (sync_packages /\ todo # <<>>) => RpmMetadataVerified
       /\ (sync_package_binary_files /\ todo # <<>>) =>
             \A s \in SuiteSet : DebMetadataVerified(s)]_vars

\* C8: when the program exits, its exit code is 0 if the verb succeeded for
\* every job and 1 otherwise.
C8_ExitCodeReportsFailure ==
    mpc = "exit" =>
        (return_code = 0 <=> \A j \in Jobs : outcome[j] = "none")

\* C9: a job's domain error sets the status of the worker that ran it to 1
\* and leaves that worker running; a status of 1 stays 1; and a run in which
\* a job raised a domain error ends with the queue empty and every job run.
C9_DomainErrorIsolated ==
    /\ [][\A w \in Workers :
             (/\ do_job(w)
              /\ \E j \in Jobs : /\ outcome'[j] \in OSRepoSyncExceptions
                                 /\ ran'[j] # ran[j])
                => (status'[w] = 1 /\ wpc'[w] = "do")]_vars
    /\ [][\A w \in Workers : status[w] = 1 => status'[w] = 1]_vars
    /\ [](mpc = "exit" /\ (\E j \in Jobs : outcome[j] \in OSRepoSyncExceptions)
            => queue = <<>> /\ \A j \in Jobs : outcome[j] # "unrun")

\* C10: no job is run twice or by two workers.
C10_JobRunAtMostOnce == \A j \in Jobs : Len(ran[j]) <= 1

\* A run of two workers has ended in which each of them ran a job.
C10_Witness ==
    /\ mpc = "exit"
    /\ \E j, k \in Jobs : ran[j] = <<1>> /\ ran[k] = <<2>>

\* C11: once a job has run, the configuration holds no two jobs of one
\* reponame in different job sets, and no two workers hold job sets with a
\* job of the same reponame.
C11_DistinctReponames ==
    LET jobs == JobsOf(config, 1) IN
    /\ (\E j \in Jobs : ran[j] # <<>>) =>
          \A j, k \in Jobs :
             jobs[j].section # jobs[k].section =>
                jobs[j].reponame # jobs[k].reponame
    /\ \A v, w \in Workers :
          v # w =>
             \A j \in wjobs[v], k \in wjobs[w] :
                jobs[j].reponame # jobs[k].reponame

\* C12: one call of Downloader.get makes at most 10 requests, transport
\* failures and hash mismatches counted together, and a call that has made
\* 10 failed ones raises OSRepoSyncDownLoadError without another request.
C12_AtMostTenAttempts ==
    /\ gattempts <= 10
    /\ (gpc = "raised" /\ gattempts >= 10) => gexc = "OSRepoSyncDownLoadError"

\* C13: a response with an error status, other than a 404 that the call
\* tolerates, is the last request of the call: get raises
\* OSRepoSyncDownLoadError, the file at destination is the one from before
\* the call, and when it answered the first request the call has made one
\* request.  get never ends with OSRepoSyncHashError: a call whose retries
\* are used up raises OSRepoSyncDownLoadError.
Refused ==
    /\ gstatus \notin {0, 200}
    /\ ~(garg.not_found_ok /\ gstatus = 404)

C13_ErrorStatusNotRetried ==
    /\ Refused =>
          /\ gpc \in {"raised", "killed"}
          /\ gpc = "raised" => gexc = "OSRepoSyncDownLoadError"
          /\ gdest = gbefore
          /\ gretries = Retries => gattempts = 1
    /\ gpc = "raised" => gexc # "OSRepoSyncHashError"
    /\ (gpc = "raised" /\ gretries < 0) => gexc = "OSRepoSyncDownLoadError"

C13_Witness ==
    /\ Refused
    /\ gpc = "raised"
    /\ gattempts = 1
    /\ gbefore # NoFile

\* C14: a 404 that the call tolerates (not_found_ok) is the last request of
\* the call: get returns without an exception, the file at destination is
\* the one from before the call, none where there was none, and when the
\* 404 answered the first request the call has made one request.
Tolerated == garg.not_found_ok /\ gstatus = 404

C14_ToleratedNotFoundReturns ==
    Tolerated =>
       /\ gpc \in {"move", "returned", "killed"}
       /\ gexc = "none"
       /\ gdest = gbefore
       /\ gretries = Retries => gattempts = 1

C14_Witness ==
    /\ Tolerated
    /\ gpc = "returned"
    /\ gattempts = 1
    /\ gdest = NoFile

\* C15: in a job with allow_missing_packages, a turn of the package loop of
\* sync goes on to the next package whatever the download of its package
\* ended with: it does not end the sync.
C15_MissingPackagesTolerated ==
    [][(/\ allow_missing_packages
        /\ todo # <<>>
        /\ sync_packages \/ sync_package_binary_files)
          => (pc' = pc /\ todo' = Tail(todo))]_vars

\* C16: the turn of sync_release that requests Release.gpg, after InRelease
\* and Release were fetched, and is answered 404 goes on: it does not end
\* the sync.
C16_MissingReleaseGpgTolerated ==
    [][(/\ sync_release
        /\ todo # <<>>
        /\ Head(todo) = "Release.gpg"
        /\ release[Head(suites)]["InRelease"] # NoFile
        /\ release[Head(suites)]["Release"] # NoFile
        /\ answer' = 404)
          => (pc' = pc /\ todo' = Tail(todo))]_vars

\* The argument --timestamp <string> for a string that is not 14 digits.
AliasArg(p) == [digits |-> FALSE, date |-> 0, path |-> p]

\* C17: while named/prod points at a snapshot directory that exists,
\* snap_name with the source prod and any name returns, and the name then
\* points at the timestamp named/prod points at.
C17_AliasSourceDereferenced ==
    (named["prod"] # 0 /\ snaps[named["prod"]].dir) =>
       \A snapname \in snapnames :
          LET call == snap_name_call(AliasArg("prod"), snapname) IN
          /\ call.exc = "none"
          /\ call.named[snapname] = named["prod"]

\* The directory that the source of snap_name resolves to is missing: the
\* 14-digit timestamp has no directory, no link is at the place the string
\* names, or the link's target has no directory.
SourceMissing(timestamp) ==
    IF timestamp.digits THEN ~snaps[timestamp.date].dir
    ELSE LET link == readlink(timestamp.path) IN
         link.exc # "none" \/ ~snaps[link.target].dir

\* C18: snap_name with a source whose directory is missing ends with
\* OSRepoSyncException and leaves every alias and named/ as they were.
C18_MissingSourceIsDomainError ==
    \A timestamp \in TimestampArgs, snapname \in snapnames :
       SourceMissing(timestamp) =>
          LET call == snap_name_call(timestamp, snapname) IN
          /\ call.exc = "OSRepoSyncException"
          /\ call.named = named
          /\ call.named_dir = named_dir

\* The timestamp that the source of snap_name resolves to.
SourceTarget(timestamp) ==
    IF timestamp.digits THEN timestamp.date
    ELSE readlink(timestamp.path).target

\* C19: a snap_name that returns leaves named/<name> pointing at the
\* timestamp its source resolves to, whose directory exists, whatever
\* named/<name> was before, and every other alias as it was; the step of the
\* verb changes neither latest nor a snapshot directory.
C19_NameChangesOneAlias ==
    /\ [](\A timestamp \in TimestampArgs, snapname \in snapnames :
            LET call == snap_name_call(timestamp, snapname) IN
            call.exc = "none" =>
               /\ snaps[SourceTarget(timestamp)].dir
               /\ call.named =
                     [n \in Names |-> IF n = snapname
                                      THEN SourceTarget(timestamp)
                                      ELSE named[n]])
    /\ [][(snap_name /\ lastRun'.result = "ok") =>
             /\ \E timestamp \in TimestampArgs, snapname \in snapnames :
                   /\ snap_name_call(timestamp, snapname).exc = "none"
                   /\ named' = [n \in Names |->
                                   IF n = snapname
                                   THEN SourceTarget(timestamp)
                                   ELSE named[n]]
             /\ UNCHANGED <<latest, snaps, stray>>]_vars

\* A snap_name returned, and both names point at snapshot directories,
\* different ones.
C19_Witness ==
    /\ lastRun = [verb |-> "snap_name", result |-> "ok"]
    /\ named["prod"] # 0
    /\ named["test"] # 0
    /\ named["prod"] # named["test"]

\* C20: snap_unname of a name removes that alias and nothing else: an absent
\* alias makes it change nothing, a second application changes nothing more,
\* and the step of the verb returns and leaves every other alias, latest and
\* every snapshot directory as they were.
C20_UnnameRemovesOnlyAlias ==
    /\ [](\A snapname \in snapnames :
            /\ unlink(named, snapname)[snapname] = 0
            /\ named[snapname] = 0 => unlink(named, snapname) = named
            /\ unlink(unlink(named, snapname), snapname)
                  = unlink(named, snapname))
    /\ [][snap_unname =>
             /\ \E snapname \in snapnames :
                   named' = [n \in Names |->
                                IF n = snapname THEN 0 ELSE named[n]]
             /\ lastRun'.result = "ok"
             /\ UNCHANGED <<latest, snaps, stray, named_dir>>]_vars

\* A snap_unname has removed one alias and left the other, whose snapshot
\* directory exists, as does the one latest points at.
C20_Witness ==
    /\ lastRun = [verb |-> "snap_unname", result |-> "ok"]
    /\ named["prod"] = 0
    /\ named["test"] # 0
    /\ snaps[named["test"]].dir
    /\ latest # 0
    /\ snaps[latest].dir

\* The blobs that the metadata in the sync tree declares and whose content
\* on disk has another digest than the declared one.
Mismatched ==
    LET pkgs == packages(repomd, meta).items IN
    {BlobName(pkgs[i].location, pkgs[i].hash_algo, pkgs[i].hash_sum) :
        i \in {k \in 1..Len(pkgs) :
                  LET b == blobs[BlobName(pkgs[k].location, pkgs[k].hash_algo,
                                          pkgs[k].hash_sum)]
                  IN  /\ b # NoFile
                      /\ hexdigest(hasher(pkgs[k].hash_algo), Content(b))
                            # pkgs[k].hash_sum}}

\* C21: the step that ends a validate finds a hash mismatch logged for
\* exactly the declared blobs whose content differs from the declared
\* digest, and with at least one such blob it does not end with status 0.
C21_ValidateReportsAndFails ==
    [][(do_validate /\ pc' = "idle") =>
          /\ {r.destination : r \in {x \in reported' :
                                        x.error = "OSRepoSyncHashError"}}
                = Mismatched
          /\ Mismatched # {} => lastRun'.result # "ok"]_vars

\* C22: a snapshot directory that holds its timestamp file is left as it is
\* by every step, entries, link targets and copied files alike, but for a
\* step of snap_cleanup that removes it whole.
C22_SnapshotNeverModified ==
    [][\A d \in Dates :
          snaps[d].timestamp =>
             \/ snaps'[d] = snaps[d]
             \/ snap_cleanup /\ snaps'[d] = NoSnap]_vars

\* The positions of a snap run.
InSnap ==
    pc \in {"snap_repodata", "snap_repodata_files", "snap_treeinfo",
            "snap_treeinfo_files", "snap_packages", "snap_unlink",
            "snap_symlink", "snap_timestamp"}

\* C23: a step of a snap run with timestamp date writes nothing outside
\* snap/<reponame>/<date>/ and latest: the entry named after <destination>,
\* the other snapshot directories, the aliases and the sync tree stay as
\* they are.
C23_SnapWritesOnlyItsDirectory ==
    [][InSnap =>
          /\ stray' = stray
          /\ \A d \in Dates \ {date} : snaps'[d] = snaps[d]
          /\ UNCHANGED <<named, named_dir, repomd, meta, blobs, treeinfo,
                         images>>]_vars

\* The sync tree holds what a sync of revision r that returned leaves.
SyncedTo(r) ==
    /\ repomd = File(RepomdDoc(r))
    /\ meta = [l \in MetaLocs |-> File(MetaContent(l, r))]
    /\ \A b \in BlobNames :
          SyncedBlobs(r)[b] # NoFile => blobs[b] = SyncedBlobs(r)[b]
    /\ treeinfo = upTreeinfo
    /\ upTreeinfo # NoFile => \A f \in TreeFiles : images[f] = File("iso")

InSync ==
    pc \in {"sync_rmtree", "sync_repomd", "sync_repomd_files",
            "sync_packages", "sync_treeinfo", "sync_treeinfo_files"}

\* C24: a sync run on a tree that holds the revision the upstream still
\* publishes fetches nothing: none of its steps changes a file of the sync
\* tree.
C24_SecondSyncFetchesNothing ==
    [][(InSync /\ SyncedTo(up)) =>
          UNCHANGED <<repomd, meta, blobs, treeinfo, images>>]_vars

\* C25: snap_cleanup removes entries named by a date only: latest, named
\* and its aliases, and the entry named after <destination> are after the
\* cleanup what they were before it, and the cleanup returns.
C25_CleanupRemovesOnlyTimestamps ==
    [][snap_cleanup =>
          /\ removed' \subseteq Dates
          /\ UNCHANGED <<stray, latest, named, named_dir>>
          /\ lastRun'.result = "ok"]_vars

\* C26: between the runs of snap, snap_cleanup, snap_name and snap_unname,
\* none of them stopped and the dates of the snaps never decreasing, latest
\* when present points at an existing snapshot directory and no snapshot
\* directory has a greater date; and the step that ends a successful snap
\* leaves latest at the directory of that snap.
C26_LatestIsGreatest ==
    /\ [](pc = "idle" /\ latest # 0 =>
             /\ snaps[latest].dir
             /\ \A d \in Dates : snaps[d].dir => d <= latest)
    /\ [][snap_timestamp => latest' = date /\ snaps'[date].dir]_vars
C26_Witness ==
    /\ pc = "idle" /\ lastRun = [verb |-> "snap", result |-> "ok"]
    /\ date = 2 /\ latest = 2
    /\ snaps[1].timestamp /\ snaps[2].timestamp

NoPrimaryDoc ==
    [ok |-> TRUE,
     data |-> <<DataEntry("repodata/filelists.xml.gz", Revision(1))>>]
MetadataErrors ==
    {packages(f, [l \in MetaLocs |-> NoFile]).exc :
        f \in {NoFile, File(GarbledDoc), File(NoPrimaryDoc)}}

\* C28: a job whose verb ends with what the reader raises on a missing or
\* malformed repomd.xml, or on one without a primary.xml entry, sets the
\* status of its worker to 1 and leaves the worker running; and a run with
\* such a job exits with code 1.
C28_MetadataErrorFailsJobOnly ==
    /\ [][\A w \in Workers :
             (/\ do_job(w)
              /\ \E j \in Jobs : /\ outcome'[j] \in MetadataErrors
                                 /\ ran'[j] # ran[j])
                => (status'[w] = 1 /\ wpc'[w] = "do")]_vars
    /\ [](mpc = "exit" /\ (\E j \in Jobs : outcome[j] \in MetadataErrors)
            => return_code = 1)

\* C29: a run given both --repo and --tags enqueues no job set and runs no
\* job.
C29_RepoAndTagsRefused ==
    (repo # <<>> /\ tags # <<>>) =>
        /\ queue = <<>>
        /\ \A j \in Jobs : outcome[j] = "unrun" /\ ran[j] = <<>>

\* The selection by tags: none of the negated tags is among the section's
\* tags and at least one of the others is.
TagSelected(section, tagList) ==
    /\ \A i \in 1..Len(tagList) :
          Head(tagList[i]) = "!" => Tail(tagList[i]) \notin section.tags
    /\ \E i \in 1..Len(tagList) :
          Head(tagList[i]) # "!" /\ tagList[i] \in section.tags

\* C30: with --tags and without --repo, the job sets work() enqueues are
\* those of the sections that the tags select.
C30_TagsSelectSections ==
    [][(work_enqueue /\ tags # <<>> /\ repo = <<>>) =>
          queue' = QueueOfSelected(config,
                      {n \in 1..Len(config) : TagSelected(config[n], tags)},
                      1)]_vars

\* The workers work() has created, and the number the configuration and the
\* verb call for.
Created == {w \in Workers : wpc[w] # "none"}
Configured ==
    IF method = "sync"
    THEN (IF downloaders = NoFile THEN 1 ELSE Content(downloaders))
    ELSE 1

\* C31: work() creates as many workers as the option downloaders says
\* (1 when it is unset) when the verb is sync and one worker for every
\* other verb, and it has started every one of them when it joins them.
C31_WorkersAsConfigured ==
    /\ [](mpc # "init" => Cardinality(Created) = Configured)
    /\ [](mpc \in {"join", "exit"} => \A w \in Created : wpc[w] # "created")
C31_Witness ==
    /\ mpc = "exit" /\ method = "sync" /\ downloaders = File(2)
    /\ joined = {1, 2}

\* C32: every run in which no thread that can step is left waiting forever
\* reaches the exit of the process with every created worker ended,
\* whatever the numbers of workers and of jobs; and a worker that finds the
\* queue empty ends at that step and runs nothing.
C32_EveryRunExits ==
    /\ <>(mpc = "exit" /\ \A w \in Created : wpc[w] = "ended")
    /\ [][\A w \in Workers :
             (run_pop(w) /\ queue = <<>>) =>
                (wpc'[w] = "ended" /\ UNCHANGED <<ran, outcome, wjobs>>)]_vars
\* Two workers were joined and one of them ran no job.
C32_Witness ==
    /\ mpc = "exit" /\ joined = {1, 2}
    /\ \E w \in joined : \A j \in Jobs : ran[j] # <<w>>
    /\ \E j \in Jobs : ran[j] # <<>>

\* C33: when the process exits, the queue is empty and every job that
\* work() enqueued has been run by a worker, also when a job's verb raised
\* an exception that is not a domain error.
C33_EveryJobRunAtExit ==
    (mpc = "exit" /\ num_worker >= 1) =>
        /\ queue = <<>>
        /\ \A j \in Jobs : outcome[j] # "unrun" /\ ran[j] # <<>>

\* C34: a get with replace false on a destination that is a file returns at
\* its first step, whatever checksum it was given: it makes no request,
\* creates no temporary file, checks no hash and leaves the file as it was.
C34_ExistingFileIsKept ==
    /\ []((~garg.replace /\ gbefore # NoFile) =>
            /\ gdest = gbefore
            /\ gattempts = 0
            /\ gtmp = NoFile
            /\ gpc \in {"idle", "get", "returned", "killed"}
            /\ gexc = "none")
    /\ [][(get_enter /\ ~garg.replace /\ gbefore # NoFile) =>
             gpc' = "returned"]_vars
C34_Witness ==
    /\ gpc = "returned" /\ ~garg.replace /\ garg.checksum # NoFile
    /\ gbefore = File(Old) /\ gdest = File(Old) /\ gattempts = 0

\* The records of the file that carry all three fields.
Complete(lines) ==
    {i \in 1..MaxRecords :
        \A k \in {"Filename", "Size", "SHA256"} :
            \E n \in 1..Len(lines) : lines[n].rec = i /\ lines[n].key = k}

\* C35: every entry the Packages.gz reader returns takes its filename, its
\* sha256 and its size from one record of the file, and every record with
\* all three fields gives exactly one entry; fields of a record that lacks
\* one are never joined with fields of a later record.
C35_EntriesComeFromOneRecord ==
    parsed # NoFile =>
        /\ \A e \in Content(parsed) :
              e.filename.rec = e.sha256.rec /\ e.sha256.rec = e.size.rec
        /\ \A i \in Complete(source) :
              Cardinality({e \in Content(parsed) : e.filename.rec = i}) = 1
        /\ \A e \in Content(parsed) : e.filename.rec \in Complete(source)

\* An entry of the second record that carries the sha256 of the first, every
\* Size of the file being positive.
MixedEntry ==
    /\ parsed # NoFile
    /\ 2 \in Complete(source)
    /\ \A n \in 1..Len(source) : source[n].key = "Size" => source[n].val # 0
    /\ \E e \in Content(parsed) :
          e.filename.rec = 2 /\ e.size.rec = 2 /\ e.sha256.rec = 1

\* What migrate can find on disk: the sync tree, the snapshots, the aliases
\* and the sentinel file.
OnDisk ==
    <<repomd, meta, blobs, plain, treeinfo, images, snaps, stray, latest,
      named, named_dir, migrated>>

\* C36: once a migrate run has written sync/<reponame>/migrated, no step of
\* a later migrate run changes anything on disk; and every turn of the
\* rename loop and of the relink loop, whether its rename, unlink or symlink
\* failed or not, goes on to the next file, so that a run that leaves both
\* loops writes the sentinel.
C36_MigrateOnceSkippingFailures ==
    /\ [][migrated => UNCHANGED OnDisk]_vars
    /\ [][(pc = "migrate_rename" /\ todo # <<>>) =>
             (pc' = "migrate_rename" /\ todo' = Tail(todo))]_vars
    /\ [][(pc = "migrate_relink" /\ todo # <<>>) =>
             (pc' = "migrate_relink" /\ todo' = Tail(todo)
              /\ snaplist' = snaplist)]_vars
    /\ [][(pc = "migrate_snap" /\ snaplist = <<>>) => migrated']_vars
    /\ []((pc = "idle" /\ lastRun = [verb |-> "migrate", result |-> "ok"])
           => migrated)

\* Two migrate runs have ended, the rename of package a and the unlink of
\* its link failed, package b was renamed and relinked after that, and the
\* sentinel is written.
C36_Witness ==
    /\ pc = "idle" /\ runs = 2 /\ migrated
    /\ lastRun = [verb |-> "migrate", result |-> "ok"]
    /\ plain["a"] # NoFile /\ plain["b"] = NoFile
    /\ snaps[1].links["a"] = File(PlainName("a"))
    /\ \E b \in BlobNames :
          b[1] = "b" /\ blobs[b] # NoFile /\ snaps[1].links["b"] = File(b)

\* C37: a call of Downloader.get that raises (after a status that is not
\* retried, after the last retry, or otherwise), or that returns after a 404
\* it tolerates, leaves the file at destination as it was when get was
\* called, replace being true or not.
C37_FailedGetKeepsDestination ==
    (\/ gpc = "raised"
     \/ gpc = "returned" /\ garg.not_found_ok /\ gstatus = 404)
    => gdest = gbefore

\* get was called with replace on an existing file, every response failed
\* its checksum or the transport, and get raised with the file as it was.
C37_Witness ==
    /\ gpc = "raised" /\ gexc = "OSRepoSyncDownLoadError"
    /\ garg.replace /\ gbefore = File(Old) /\ gdest = File(Old)
    /\ gattempts = Retries + 1

\* get was called with replace and not_found_ok on an existing file and
\* returned after a 404.
Tolerated404 ==
    /\ gpc = "returned" /\ garg.not_found_ok /\ gstatus = 404
    /\ garg.replace /\ gbefore = File(Old) /\ gdest = File(Old)

\* The positions of snap before its alias step: self._snap().
BeforeAlias ==
    {"snap_repodata", "snap_repodata_files", "snap_treeinfo",
     "snap_treeinfo_files", "snap_packages"}

\* C38: a snap that raises does so while it copies metadata or links
\* packages, and no step of a snap before its alias step, the failing one
\* included, changes the latest symlink: after a failed snap it points where
\* it pointed when the snap began, or is still absent.
C38_FailedSnapKeepsLatest ==
    /\ [][StartSnap => (latest' = latest)]_vars
    /\ [][(pc \in BeforeAlias) => (latest' = latest)]_vars
    /\ [][(lastRun.result = "running"
           /\ lastRun' = [verb |-> "snap", result |-> "failed"])
          => (pc \in BeforeAlias /\ latest' = latest)]_vars

\* A snap has failed after it made its directory, and latest points at the
\* snapshot of an earlier snap.
C38_Witness ==
    /\ pc = "idle" /\ lastRun = [verb |-> "snap", result |-> "failed"]
    /\ latest # 0 /\ date # latest /\ snaps[latest].timestamp
    /\ snaps[date].dir /\ ~snaps[date].timestamp
====
